---- MODULE Spec2Model ----
(***************************************************************************)
(* FT-991A CAT control library (src/src/ft991a/cat.py) and the web         *)
(* handler that bypasses it (src/src/ft991a/web.py), as a state machine.   *)
(*                                                                         *)
(* Text is a sequence of one-character strings.  A byte on the serial line *)
(* is a record [ch, of]: the character and, as history, the command it     *)
(* answers (the caller that wrote the command, "late" once that caller's   *)
(* transaction is over, "noise" for a byte no command asked for).          *)
(*                                                                         *)
(* Time is kept relative, in milliseconds: elapsed is                      *)
(* time.time() - self._last_cmd_time saturated at _min_cmd_interval (the   *)
(* code only compares the difference with that interval), timer[c] is the  *)
(* time a sleeping caller still has to sleep.                              *)
(***************************************************************************)
EXTENDS Integers, Sequences, FiniteSets, TLC

\* ------------------------------------------------------------ bounds ----
MaxCalls == 3          \* top-level calls made in one behaviour
MaxNoise == 1          \* spurious bytes the line delivers in one behaviour
MaxFaults == 1         \* answers the line loses, cuts or delays in one behaviour
TickMs == 25           \* how far one clock tick advances the time
MaxTokens == 2         \* characters or prosigns in a word of a Morse text
MaxWords == 2          \* words in a Morse text
MaxTasks == 2          \* scan tasks, and monitor tasks, the web service creates in one behaviour
MaxClients == 2        \* audio WebSocket clients

\* --------------------------------------------------- program constants ----
MinCmdInterval == 50   \* self._min_cmd_interval = 0.05
Timeout == 1000        \* timeout: float = 1.0 (per serial.read)
FreqMin == 30000       \* "Range: 30 kHz - 470 MHz"
FreqMax == 470000000
PowerMin == 5          \* max(5, min(100, watts))
PowerMax == 100
SquelchLen == 28       \* len(resp) >= 28
SquelchIdx == 23       \* resp[23]
RecallSleepMs == 100   \* await asyncio.sleep(0.1)
DitUnit == 1200        \* dit_ms = 1200.0 / wpm
Wpm == 20              \* CWKeyer(radio_instance, wpm: int = 20)
DwellMs == 150         \* scan_band(..., dwell_ms: int = 150)
ScanStepMin == 100     \* req.step < 100 or req.step > 1000000
ScanStepMax == 1000000

Callers == {"c1", "c2"}

\* ------------------------------------------------------------- text ----
Min2(a, b) == IF a < b THEN a ELSE b
Max2(a, b) == IF a > b THEN a ELSE b

DigitChars == <<"0", "1", "2", "3", "4", "5", "6", "7", "8", "9">>

IsDigit(ch) == \E i \in 1..10 : DigitChars[i] = ch

DigitVal(ch) == (CHOOSE i \in 1..10 : DigitChars[i] = ch) - 1

RECURSIVE Dec(_)
\* str(n) for n >= 0
Dec(n) == IF n < 10 THEN <<DigitChars[n + 1]>>
          ELSE Dec(n \div 10) \o <<DigitChars[(n % 10) + 1]>>

RECURSIVE Zeros(_)
Zeros(k) == IF k <= 0 THEN <<>> ELSE <<"0">> \o Zeros(k - 1)

\* f"{n:0{w}d}": sign first, then zeros up to the total width w, never cut
ZeroPad(n, w) ==
    IF n >= 0 THEN Zeros(w - Len(Dec(n))) \o Dec(n)
    ELSE <<"-">> \o Zeros(w - 1 - Len(Dec(-n))) \o Dec(-n)

StartsWith(s, p) == Len(s) >= Len(p) /\ SubSeq(s, 1, Len(p)) = p

EndsWith(s, ch) == Len(s) >= 1 /\ s[Len(s)] = ch

\* s[a:-1] of Python, a counted from 0
Body(s, a) == SubSeq(s, a + 1, Len(s) - 1)

RECURSIVE DigitsVal(_)
DigitsVal(s) == IF s = <<>> THEN 0
                ELSE 10 * DigitsVal(SubSeq(s, 1, Len(s) - 1)) + DigitVal(s[Len(s)])

AllDigits(s) == Len(s) >= 1 /\ \A i \in 1..Len(s) : IsDigit(s[i])

\* int(s): an optional sign and at least one digit, else ValueError
ParseInt(s) ==
    IF AllDigits(s) THEN [ok |-> TRUE, val |-> DigitsVal(s)]
    ELSE IF Len(s) >= 2 /\ s[1] = "+" /\ AllDigits(Tail(s))
         THEN [ok |-> TRUE, val |-> DigitsVal(Tail(s))]
    ELSE IF Len(s) >= 2 /\ s[1] = "-" /\ AllDigits(Tail(s))
         THEN [ok |-> TRUE, val |-> 0 - DigitsVal(Tail(s))]
    ELSE [ok |-> FALSE, val |-> 0]

\* the characters of a sequence of line bytes
Chars(bs) == [i \in 1..Len(bs) |-> bs[i].ch]

Tagged(s, who) == [i \in 1..Len(s) |-> [ch |-> s[i], of |-> who]]

\* bytes.decode('ascii', errors='replace')
AsciiDecode(ch) == IF ch = "0xFF" THEN "U+FFFD" ELSE ch

Decoded(bs) == [i \in 1..Len(bs) |-> AsciiDecode(bs[i].ch)]

\* ------------------------------------------------------------ codec ----
\* a mode table in which DATA_USB has the wire code of DATA_LSB
ModesClash == << [name |-> "LSB", value |-> "1"], [name |-> "USB", value |-> "2"],
            [name |-> "CW", value |-> "3"], [name |-> "FM", value |-> "4"],
            [name |-> "AM", value |-> "5"], [name |-> "RTTY_LSB", value |-> "6"],
            [name |-> "CW_R", value |-> "7"], [name |-> "DATA_LSB", value |-> "8"],
            [name |-> "RTTY_USB", value |-> "9"], [name |-> "DATA_FM", value |-> "A"],
            [name |-> "FM_N", value |-> "B"], [name |-> "DATA_USB", value |-> "8"],
            [name |-> "AM_N", value |-> "D"], [name |-> "C4FM", value |-> "E"] >>

\* class Mode(Enum): name and wire code, in declaration order
Modes == << [name |-> "LSB", value |-> "1"], [name |-> "USB", value |-> "2"],
            [name |-> "CW", value |-> "3"], [name |-> "FM", value |-> "4"],
            [name |-> "AM", value |-> "5"], [name |-> "RTTY_LSB", value |-> "6"],
            [name |-> "CW_R", value |-> "7"], [name |-> "DATA_LSB", value |-> "8"],
            [name |-> "RTTY_USB", value |-> "9"], [name |-> "DATA_FM", value |-> "A"],
            [name |-> "FM_N", value |-> "B"], [name |-> "DATA_USB", value |-> "C"],
            [name |-> "AM_N", value |-> "D"], [name |-> "C4FM", value |-> "E"] >>

CmdFA == <<"F", "A", ";">>
CmdFB == <<"F", "B", ";">>
CmdMD == <<"M", "D", "0", ";">>
CmdTX == <<"T", "X", ";">>
\* a ptt_off that sends the command of ptt_on
CmdTX0Keys == <<"T", "X", "1", ";">>

CmdTX0 == <<"T", "X", "0", ";">>
CmdTX1 == <<"T", "X", "1", ";">>
CmdSM == <<"S", "M", "0", ";">>
CmdRM1 == <<"R", "M", "1", ";">>
CmdRM2 == <<"R", "M", "2", ";">>
CmdPC == <<"P", "C", ";">>
CmdIF == <<"I", "F", ";">>
CmdID == <<"I", "D", ";">>
CmdSV == <<"S", "V", ";">>
CmdAB == <<"A", "B", ";">>

\* f"FA{freq_hz:09d};" and f"FB{freq_hz:09d};"
CmdSetFreq(vfo, hz) == <<"F", vfo>> \o ZeroPad(hz, 9) \o <<";">>

\* f"MD0{mode.value};"
CmdSetMode(m) == <<"M", "D", "0", Modes[m].value, ";">>

\* a power command that formats the caller's number as it came
CmdSetPowerRaw(w) == <<"P", "C">> \o ZeroPad(w, 3) \o <<";">>

\* watts = max(5, min(100, watts)); f"PC{watts:03d};"
CmdSetPower(w) == <<"P", "C">> \o ZeroPad(Max2(PowerMin, Min2(PowerMax, w)), 3) \o <<";">>

\* f"MC{req.channel:03d};"
CmdRecall(ch) == <<"M", "C">> \o ZeroPad(ch, 3) \o <<";">>

\* a _send that appends the terminator to every command
TerminatedAlways(cmd) == cmd \o <<";">>

\* if not command.endswith(';'): command += ';'
Terminated(cmd) == IF EndsWith(cmd, ";") THEN cmd ELSE cmd \o <<";">>

\* the value a call returns, or the exception it raises
RetInt(n) == [k |-> "int", v |-> n]
RetBool(b) == [k |-> "bool", v |-> b]
RetStr(s) == [k |-> "str", v |-> s]
RetNone == [k |-> "none", v |-> 0]
RetRaise(e) == [k |-> "raise", v |-> e]

\* get_frequency_a/b, get_s_meter, get_power_meter, get_swr_meter, get_power_level
DecodeInt(resp, pre) ==
    IF StartsWith(resp, pre) /\ EndsWith(resp, ";")
    THEN LET p == ParseInt(Body(resp, Len(pre)))
         IN  IF p.ok THEN RetInt(p.val) ELSE RetInt(0)
    ELSE RetInt(0)

\* a get_mode that answers plain UNKNOWN to a code it does not know
DecodeModeNoCode(resp) ==
    IF StartsWith(resp, <<"M", "D", "0">>) /\ EndsWith(resp, ";")
    THEN LET code == Body(resp, 3)
         IN  IF \E m \in 1..Len(Modes) : <<Modes[m].value>> = code
             THEN [k |-> "mode", v |-> Modes[CHOOSE m \in 1..Len(Modes) : <<Modes[m].value>> = code].name]
             ELSE [k |-> "mode", v |-> "UNKNOWN"]
    ELSE [k |-> "mode", v |-> "UNKNOWN"]

\* get_mode
DecodeMode(resp) ==
    IF StartsWith(resp, <<"M", "D", "0">>) /\ EndsWith(resp, ";")
    THEN LET code == Body(resp, 3)
         IN  IF \E m \in 1..Len(Modes) : <<Modes[m].value>> = code
             THEN [k |-> "mode", v |-> Modes[CHOOSE m \in 1..Len(Modes) : <<Modes[m].value>> = code].name]
             ELSE [k |-> "unknown_code", v |-> code]
    ELSE [k |-> "mode", v |-> "UNKNOWN"]

\* the characters of mode.name, and of the literal "UNKNOWN"
NameChars(n) ==
    CASE n = "LSB" -> <<"L", "S", "B">>
      [] n = "USB" -> <<"U", "S", "B">>
      [] n = "CW" -> <<"C", "W">>
      [] n = "FM" -> <<"F", "M">>
      [] n = "AM" -> <<"A", "M">>
      [] n = "RTTY_LSB" -> <<"R", "T", "T", "Y", "_", "L", "S", "B">>
      [] n = "CW_R" -> <<"C", "W", "_", "R">>
      [] n = "DATA_LSB" -> <<"D", "A", "T", "A", "_", "L", "S", "B">>
      [] n = "RTTY_USB" -> <<"R", "T", "T", "Y", "_", "U", "S", "B">>
      [] n = "DATA_FM" -> <<"D", "A", "T", "A", "_", "F", "M">>
      [] n = "FM_N" -> <<"F", "M", "_", "N">>
      [] n = "DATA_USB" -> <<"D", "A", "T", "A", "_", "U", "S", "B">>
      [] n = "AM_N" -> <<"A", "M", "_", "N">>
      [] n = "C4FM" -> <<"C", "4", "F", "M">>
      [] n = "UNKNOWN" -> <<"U", "N", "K", "N", "O", "W", "N">>

\* the string get_mode returns: mode.name, f"UNKNOWN({code})" or "UNKNOWN"
ModeText(r) ==
    IF r.k = "mode" THEN NameChars(r.v)
    ELSE NameChars("UNKNOWN") \o <<"(">> \o r.v \o <<")">>

\* is_transmitting
DecodeTx(resp) ==
    IF StartsWith(resp, <<"T", "X">>) /\ EndsWith(resp, ";")
    THEN RetBool(Body(resp, 2) # <<"0">>)
    ELSE RetBool(FALSE)

\* get_squelch_status
DecodeSquelch(resp) ==
    IF Len(resp) >= SquelchLen THEN RetBool(resp[SquelchIdx + 1] = "1")
    ELSE RetBool(FALSE)

\* what the caller of _send makes of the response, by the name of the getter
Decode(dec, resp) ==
    CASE dec = "get_frequency_a" -> DecodeInt(resp, <<"F", "A">>)
      [] dec = "get_frequency_b" -> DecodeInt(resp, <<"F", "B">>)
      [] dec = "get_mode" -> DecodeMode(resp)
      [] dec = "is_transmitting" -> DecodeTx(resp)
      [] dec = "get_s_meter" -> DecodeInt(resp, <<"S", "M", "0">>)
      [] dec = "get_power_meter" -> DecodeInt(resp, <<"R", "M", "1">>)
      [] dec = "get_swr_meter" -> DecodeInt(resp, <<"R", "M", "2">>)
      [] dec = "get_power_level" -> DecodeInt(resp, <<"P", "C">>)
      [] dec = "get_squelch_status" -> DecodeSquelch(resp)
      [] dec = "get_info" -> RetStr(resp)
      [] dec = "get_id" -> RetStr(resp)
      [] dec = "_send" -> RetStr(resp)
      [] OTHER -> RetNone

\* ------------------------------------------------------- Morse code ----
\* MORSE_TABLE, in the order of the source: letters, figures, punctuation,
\* the prosigns and the space
MorseTable ==
    << [key |-> <<"A">>, code |-> <<".", "-">>],
       [key |-> <<"B">>, code |-> <<"-", ".", ".", ".">>],
       [key |-> <<"C">>, code |-> <<"-", ".", "-", ".">>],
       [key |-> <<"D">>, code |-> <<"-", ".", ".">>], [key |-> <<"E">>, code |-> <<".">>],
       [key |-> <<"F">>, code |-> <<".", ".", "-", ".">>],
       [key |-> <<"G">>, code |-> <<"-", "-", ".">>],
       [key |-> <<"H">>, code |-> <<".", ".", ".", ".">>],
       [key |-> <<"I">>, code |-> <<".", ".">>],
       [key |-> <<"J">>, code |-> <<".", "-", "-", "-">>],
       [key |-> <<"K">>, code |-> <<"-", ".", "-">>],
       [key |-> <<"L">>, code |-> <<".", "-", ".", ".">>],
       [key |-> <<"M">>, code |-> <<"-", "-">>], [key |-> <<"N">>, code |-> <<"-", ".">>],
       [key |-> <<"O">>, code |-> <<"-", "-", "-">>],
       [key |-> <<"P">>, code |-> <<".", "-", "-", ".">>],
       [key |-> <<"Q">>, code |-> <<"-", "-", ".", "-">>],
       [key |-> <<"R">>, code |-> <<".", "-", ".">>],
       [key |-> <<"S">>, code |-> <<".", ".", ".">>], [key |-> <<"T">>, code |-> <<"-">>],
       [key |-> <<"U">>, code |-> <<".", ".", "-">>],
       [key |-> <<"V">>, code |-> <<".", ".", ".", "-">>],
       [key |-> <<"W">>, code |-> <<".", "-", "-">>],
       [key |-> <<"X">>, code |-> <<"-", ".", ".", "-">>],
       [key |-> <<"Y">>, code |-> <<"-", ".", "-", "-">>],
       [key |-> <<"Z">>, code |-> <<"-", "-", ".", ".">>],
       [key |-> <<"0">>, code |-> <<"-", "-", "-", "-", "-">>],
       [key |-> <<"1">>, code |-> <<".", "-", "-", "-", "-">>],
       [key |-> <<"2">>, code |-> <<".", ".", "-", "-", "-">>],
       [key |-> <<"3">>, code |-> <<".", ".", ".", "-", "-">>],
       [key |-> <<"4">>, code |-> <<".", ".", ".", ".", "-">>],
       [key |-> <<"5">>, code |-> <<".", ".", ".", ".", ".">>],
       [key |-> <<"6">>, code |-> <<"-", ".", ".", ".", ".">>],
       [key |-> <<"7">>, code |-> <<"-", "-", ".", ".", ".">>],
       [key |-> <<"8">>, code |-> <<"-", "-", "-", ".", ".">>],
       [key |-> <<"9">>, code |-> <<"-", "-", "-", "-", ".">>],
       [key |-> <<".">>, code |-> <<".", "-", ".", "-", ".", "-">>],
       [key |-> <<",">>, code |-> <<"-", "-", ".", ".", "-", "-">>],
       [key |-> <<"?">>, code |-> <<".", ".", "-", "-", ".", ".">>],
       [key |-> <<"'">>, code |-> <<".", "-", "-", "-", "-", ".">>],
       [key |-> <<"!">>, code |-> <<"-", ".", "-", ".", "-", "-">>],
       [key |-> <<"/">>, code |-> <<"-", ".", ".", "-", ".">>],
       [key |-> <<"(">>, code |-> <<"-", ".", "-", "-", ".">>],
       [key |-> <<")">>, code |-> <<"-", ".", "-", "-", ".", "-">>],
       [key |-> <<"&">>, code |-> <<".", "-", ".", ".", ".">>],
       [key |-> <<":">>, code |-> <<"-", "-", "-", ".", ".", ".">>],
       [key |-> <<";">>, code |-> <<"-", ".", "-", ".", "-", ".">>],
       [key |-> <<"=">>, code |-> <<"-", ".", ".", ".", "-">>],
       [key |-> <<"+">>, code |-> <<".", "-", ".", "-", ".">>],
       [key |-> <<"-">>, code |-> <<"-", ".", ".", ".", ".", "-">>],
       [key |-> <<"_">>, code |-> <<".", ".", "-", "-", ".", "-">>],
       [key |-> <<"\"">>, code |-> <<".", "-", ".", ".", "-", ".">>],
       [key |-> <<"$">>, code |-> <<".", ".", ".", "-", ".", ".", "-">>],
       [key |-> <<"@">>, code |-> <<".", "-", "-", ".", "-", ".">>],
       [key |-> <<"<", "S", "K", ">">>, code |-> <<".", ".", ".", "-", ".", "-">>],
       [key |-> <<"<", "K", "A", ">">>, code |-> <<"-", ".", "-", ".", "-">>],
       [key |-> <<"<", "S", "N", ">">>, code |-> <<".", ".", ".", "-", ".">>],
       [key |-> <<" ">>, code |-> <<" ">>] >>

\* text_to_morse for an upper-case text (text.upper() leaves it as it is)
TextToMorse(text0) ==
    LET Letters == {"A", "B", "C", "D", "E", "F", "G", "H", "I", "J", "K", "L", "M",
                    "N", "O", "P", "Q", "R", "S", "T", "U", "V", "W", "X", "Y", "Z"}
        InTable(k) == \E n \in 1..Len(MorseTable) : MorseTable[n].key = k
        CodeOf(k) == MorseTable[CHOOSE n \in 1..Len(MorseTable) : MorseTable[n].key = k].code
        RECURSIVE Strip(_)
        \* str.strip()
        Strip(t) == IF t # <<>> /\ t[1] = " " THEN Strip(Tail(t))
                    ELSE IF t # <<>> /\ t[Len(t)] = " " THEN Strip(SubSeq(t, 1, Len(t) - 1))
                    ELSE t
        RECURSIVE Matches(_, _)
        \* re.finditer(r'<([A-Z]{2,3})>', text): the matches from left to right
        Matches(t, i) ==
            IF i > Len(t) THEN <<>>
            ELSE IF /\ t[i] = "<" /\ i + 4 <= Len(t) /\ t[i + 4] = ">"
                    /\ \A j \in (i + 1)..(i + 3) : t[j] \in Letters
                 THEN <<SubSeq(t, i, i + 4)>> \o Matches(t, i + 5)
            ELSE IF /\ t[i] = "<" /\ i + 3 <= Len(t) /\ t[i + 3] = ">"
                    /\ \A j \in (i + 1)..(i + 2) : t[j] \in Letters
                 THEN <<SubSeq(t, i, i + 3)>> \o Matches(t, i + 4)
            ELSE Matches(t, i + 1)
        RECURSIVE Replace(_, _, _)
        \* str.replace(old, new): every occurrence, from left to right
        Replace(t, old, new) ==
            IF Len(t) < Len(old) THEN t
            ELSE IF SubSeq(t, 1, Len(old)) = old
                 THEN new \o Replace(SubSeq(t, Len(old) + 1, Len(t)), old, new)
            ELSE <<t[1]>> \o Replace(Tail(t), old, new)
        RECURSIVE Mark(_, _)
        \* for match in ...: if prosign in MORSE_TABLE:
        \*     text = text.replace(prosign, f'\x00{prosign}\x00')
        Mark(t, ms) ==
            IF ms = <<>> THEN t
            ELSE Mark(IF InTable(Head(ms))
                      THEN Replace(t, Head(ms), <<"NUL">> \o Head(ms) \o <<"NUL">>)
                      ELSE t, Tail(ms))
        RECURSIVE Words(_, _)
        \* re.split(r'\s+', text.strip()), cur being the word begun
        Words(t, cur) ==
            IF t = <<>> THEN <<cur>>
            ELSE IF t[1] = " "
                 THEN (IF cur = <<>> THEN <<>> ELSE <<cur>>)
                      \o Words(Tail(t), <<>>)
            ELSE Words(Tail(t), Append(cur, t[1]))
        RECURSIVE Codes(_, _)
        \* the while loop over a word: morse_chars
        Codes(w, i) ==
            IF i > Len(w) THEN <<>>
            ELSE IF w[i] = "NUL"
                 THEN LET end == IF \E j \in (i + 1)..Len(w) : w[j] = "NUL"
                                 THEN CHOOSE j \in (i + 1)..Len(w) :
                                          /\ w[j] = "NUL"
                                          /\ \A n \in (i + 1)..(j - 1) : w[n] # "NUL"
                                 ELSE Len(w)
                          prosign == SubSeq(w, i + 1, end - 1)
                      IN  (IF InTable(prosign) THEN <<CodeOf(prosign)>> ELSE <<>>)
                          \o Codes(w, end + 1)
            ELSE IF InTable(<<w[i]>>) THEN <<CodeOf(<<w[i]>>)>> \o Codes(w, i + 1)
            ELSE Codes(w, i + 1)
        RECURSIVE Join(_, _)
        \* sep.join(parts)
        Join(parts, sep) ==
            IF parts = <<>> THEN <<>>
            ELSE IF Len(parts) = 1 THEN parts[1]
            ELSE parts[1] \o sep \o Join(Tail(parts), sep)
        RECURSIVE MorseWords(_)
        \* if morse_chars: morse_words.append(' '.join(morse_chars))
        MorseWords(ws) ==
            IF ws = <<>> THEN <<>>
            ELSE (IF Codes(Head(ws), 1) = <<>> THEN <<>>
                  ELSE <<Join(Codes(Head(ws), 1), <<" ">>)>>)
                 \o MorseWords(Tail(ws))
        text == Strip(text0)
    IN  IF text = <<>> THEN <<>>
        ELSE Join(MorseWords(Words(Strip(Mark(text, Matches(text, 1))), <<>>)), <<" ", " ">>)

\* morse_to_text
MorseToText(morse0) ==
    LET HasCode(k) == \E n \in 1..Len(MorseTable) :
                          MorseTable[n].code = k /\ MorseTable[n].key # <<" ">>
        \* REVERSE_MORSE_TABLE[k]: the last entry of the table with that code
        KeyOf(k) == MorseTable[CHOOSE n \in 1..Len(MorseTable) :
                        /\ MorseTable[n].code = k /\ MorseTable[n].key # <<" ">>
                        /\ \A j \in (n + 1)..Len(MorseTable) :
                               ~(MorseTable[j].code = k /\ MorseTable[j].key # <<" ">>)].key
        RECURSIVE Strip(_)
        Strip(t) == IF t # <<>> /\ t[1] = " " THEN Strip(Tail(t))
                    ELSE IF t # <<>> /\ t[Len(t)] = " " THEN Strip(SubSeq(t, 1, Len(t) - 1))
                    ELSE t
        Letter(cur) == IF HasCode(cur) THEN KeyOf(cur) ELSE <<>>
        RECURSIVE Scan(_, _, _, _)
        \* re.split(r'  +', ...) into words, word.split(' ') into letters: t is
        \* what is left, cur the code begun, word the letters decoded in this
        \* word, out the words decoded
        Scan(t, cur, word, out) ==
            IF t = <<>>
            THEN LET w == word \o Letter(cur)
                 IN  IF w = <<>> THEN out ELSE Append(out, w)
            ELSE IF t[1] # " " THEN Scan(Tail(t), Append(cur, t[1]), word, out)
            ELSE IF Len(t) >= 2 /\ t[2] = " "
                 THEN LET w == word \o Letter(cur)
                      IN  Scan(Strip(t), <<>>, <<>>, IF w = <<>> THEN out ELSE Append(out, w))
            ELSE Scan(Tail(t), <<>>, word \o Letter(cur), out)
        RECURSIVE Join(_, _)
        Join(parts, sep) ==
            IF parts = <<>> THEN <<>>
            ELSE IF Len(parts) = 1 THEN parts[1]
            ELSE parts[1] \o sep \o Join(Tail(parts), sep)
    IN  Join(Scan(Strip(morse0), <<>>, <<>>, <<>>), <<" ">>)

\* the upper-case texts of at most MaxWords words of at most MaxTokens
\* characters or prosigns each, the words one space apart
MorseTexts ==
    LET Tokens == {<<"E">>, <<"T">>, <<"<", "S", "K", ">">>, <<"<", "K", "A", ">">>}
        RECURSIVE WordsOf(_)
        WordsOf(n) == IF n = 1 THEN Tokens
                      ELSE WordsOf(n - 1) \cup {w \o t : w \in WordsOf(n - 1), t \in Tokens}
        RECURSIVE TextsOf(_)
        TextsOf(n) == IF n = 1 THEN WordsOf(MaxTokens)
                      ELSE TextsOf(n - 1)
                           \cup {x \o <<" ">> \o w : x \in TextsOf(n - 1), w \in WordsOf(MaxTokens)}
    IN  TextsOf(MaxWords)

\* ------------------------------------------------------------ radio ----
\* The transceiver at the far end of the line, by the command table the
\* getters and setters of cat.py are written against.
IsSetFreq(cmd, vfo) ==
    /\ Len(cmd) = 12
    /\ StartsWith(cmd, <<"F", vfo>>)
    /\ EndsWith(cmd, ";")
    /\ AllDigits(Body(cmd, 2))
    /\ DigitsVal(Body(cmd, 2)) >= FreqMin
    /\ DigitsVal(Body(cmd, 2)) <= FreqMax

IsSetMode(cmd) ==
    /\ Len(cmd) = 5
    /\ StartsWith(cmd, <<"M", "D", "0">>)
    /\ EndsWith(cmd, ";")
    /\ \E m \in 1..Len(Modes) : Modes[m].value = cmd[4]

IsSetPower(cmd) ==
    /\ Len(cmd) = 6
    /\ StartsWith(cmd, <<"P", "C">>)
    /\ EndsWith(cmd, ";")
    /\ AllDigits(Body(cmd, 2))

IsRecall(cmd) ==
    /\ Len(cmd) = 6
    /\ StartsWith(cmd, <<"M", "C">>)
    /\ EndsWith(cmd, ";")
    /\ AllDigits(Body(cmd, 2))

\* the IF answer: 28 characters, the terminator last
InfoReply(r) ==
    <<"I", "F", "0", "0", "1">> \o ZeroPad(r.fa, 9) \o <<"+", "0", "0", "0", "0">>
        \o <<"0", "0", r.md, "0", r.sql, "0", "0", "0", ";">>

\* the text the radio answers a command with (nothing to a set command)
RadioReply(cmd, r) ==
    CASE cmd = CmdFA -> <<"F", "A">> \o ZeroPad(r.fa, 9) \o <<";">>
      [] cmd = CmdFB -> <<"F", "B">> \o ZeroPad(r.fb, 9) \o <<";">>
      [] cmd = CmdMD -> <<"M", "D", "0", r.md, ";">>
      [] cmd = CmdTX -> <<"T", "X", IF r.tx THEN "1" ELSE "0", ";">>
      [] cmd = CmdSM -> <<"S", "M", "0">> \o ZeroPad(r.sm, 3) \o <<";">>
      [] cmd = CmdRM1 -> <<"R", "M", "1">> \o ZeroPad(0, 3) \o <<";">>
      [] cmd = CmdRM2 -> <<"R", "M", "2">> \o ZeroPad(0, 3) \o <<";">>
      [] cmd = CmdPC -> <<"P", "C">> \o ZeroPad(r.pc, 3) \o <<";">>
      [] cmd = CmdIF -> InfoReply(r)
      [] cmd = CmdID -> <<"I", "D", "0", "6", "7", "0", ";">>
      [] cmd \in {CmdTX0, CmdTX1, CmdSV, CmdAB} -> <<>>
      [] IsSetFreq(cmd, "A") \/ IsSetFreq(cmd, "B") -> <<>>
      [] IsSetMode(cmd) \/ IsSetPower(cmd) \/ IsRecall(cmd) -> <<>>
      [] OTHER -> <<"?", ";">>

\* the radio after it has taken a command: its PTT, its VFO-A and its mode
\* are followed
RadioAfter(cmd, r) ==
    CASE cmd = CmdTX0 -> [r EXCEPT !.tx = FALSE]
      [] cmd = CmdTX1 -> [r EXCEPT !.tx = TRUE]
      [] IsSetFreq(cmd, "A") -> [r EXCEPT !.fa = DigitsVal(Body(cmd, 2))]
      [] IsSetMode(cmd) -> [r EXCEPT !.md = cmd[4]]
      [] OTHER -> r

\* ------------------------------------------------------- operations ----
Send(cmd, dec) == [k |-> "send", cmd |-> cmd, dec |-> dec]
Prim(kind) == [k |-> kind, cmd |-> <<>>, dec |-> ""]

\* a get_status that reads the S-meter before the squelch
StatusProgramSwapped ==
    << Send(CmdFA, "get_frequency_a"), Send(CmdFB, "get_frequency_b"),
       Send(CmdMD, "get_mode"), Send(CmdTX, "is_transmitting"),
       Send(CmdSM, "get_s_meter"), Send(CmdIF, "get_squelch_status"),
       Send(CmdPC, "get_power_level"), Send(CmdRM2, "get_swr_meter") >>

\* get_status: the eight getters in the order of the RadioStatus fields
StatusProgram ==
    << Send(CmdFA, "get_frequency_a"), Send(CmdFB, "get_frequency_b"),
       Send(CmdMD, "get_mode"), Send(CmdTX, "is_transmitting"),
       Send(CmdIF, "get_squelch_status"), Send(CmdSM, "get_s_meter"),
       Send(CmdPC, "get_power_level"), Send(CmdRM2, "get_swr_meter") >>

Getters ==
    {"get_frequency_a", "get_frequency_b", "get_mode", "is_transmitting",
     "get_s_meter", "get_power_meter", "get_swr_meter", "get_power_level",
     "get_squelch_status"}

NumericGetters ==
    {"get_frequency_a", "get_frequency_b", "get_s_meter", "get_power_meter",
     "get_swr_meter", "get_power_level"}

GetterCmd(o) ==
    CASE o = "get_frequency_a" -> CmdFA
      [] o = "get_frequency_b" -> CmdFB
      [] o = "get_mode" -> CmdMD
      [] o = "is_transmitting" -> CmdTX
      [] o = "get_s_meter" -> CmdSM
      [] o = "get_power_meter" -> CmdRM1
      [] o = "get_swr_meter" -> CmdRM2
      [] o = "get_power_level" -> CmdPC
      [] o = "get_squelch_status" -> CmdIF
      [] o = "get_info" -> CmdIF
      [] o = "get_id" -> CmdID

\* A request to key or unkey carries in its argument what the caller asked
\* for (odd: key, even: unkey) and, in the next bit, whether the caller
\* confirmed it; no handler reads that bit.
Enable(a) == a % 2 = 1

\* radio.ptt_on() if the request enables, radio.ptt_off() if not
CmdPtt(a) == IF Enable(a) THEN CmdTX1 ELSE CmdTX0

\* ------------------------------------------------------ the CW keyer ----
\* the Morse strings send_morse_code is called with
MorseArgs ==
    << <<".">>, <<".", "-">>, <<".", " ", ".">>, <<".", "x">>, <<".", " ", " ", ".">> >>

\* _key_up: if self._is_keying: self.radio.ptt_off(); self._is_keying = False
KeyUpSteps == <<Prim("keyup"), Send(CmdTX0, "set"), Prim("unkeyed")>>

\* _send_dit, _send_dah: _key_down, time.sleep, _key_up; any other element
\* is skipped
Element(ch) ==
    IF ch \in {".", "-"}
    THEN <<Prim("keydown"), Send(CmdTX1, "set"), Prim("keyed"),
           Prim(IF ch = "." THEN "dit" ELSE "dah")>> \o KeyUpSteps
    ELSE <<>>

RECURSIVE KeySteps(_, _)
\* the loops of send_morse_code over words, letters and elements, from the
\* i-th character on: the word gap after two or more spaces, the letter gap
\* after one, the element gap inside a letter
KeySteps(m, i) ==
    IF i > Len(m) THEN <<>>
    ELSE IF m[i] = " " THEN KeySteps(m, i + 1)
    ELSE (IF i = 1 THEN <<>>
          ELSE IF m[i - 1] # " " THEN <<Prim("egap")>>
          ELSE IF i > 2 /\ m[i - 2] = " " THEN <<Prim("wgap")>>
          ELSE <<Prim("lgap")>>)
         \o Element(m[i]) \o KeySteps(m, i + 1)

\* send_morse_code: the try body, then except Exception: _key_up(); raise,
\* then finally: _key_up()
MorseProgram(m) == KeySteps(m, 1) \o <<Prim("endtry")>> \o KeyUpSteps \o KeyUpSteps

\* where the except block and the finally block of send_morse_code start
ExceptAt(m) == Len(KeySteps(m, 1)) + 2

FinallyAt(m) == ExceptAt(m) + Len(KeyUpSteps)

\* time.sleep of the keyer and of the scanner, in milliseconds, by the kind
\* of the pause
SleepMs(kind) ==
    CASE kind = "dwell" -> DwellMs
      [] kind = "dit" -> DitUnit \div Wpm
      [] kind = "dah" -> 3 * (DitUnit \div Wpm)
      [] kind = "egap" -> DitUnit \div Wpm
      [] kind = "lgap" -> 3 * (DitUnit \div Wpm)
      [] kind = "wgap" -> 7 * (DitUnit \div Wpm) - 3 * (DitUnit \div Wpm)

\* ----------------------------------------------------- the scanner ----
\* the bands scan_band is called with: start_hz, end_hz, step_hz
ScanArgs == << [start |-> 14000000, end |-> 14007000, step |-> 5000],
               [start |-> 14010000, end |-> 14005000, step |-> 5000],
               [start |-> 7000000, end |-> 7000000, step |-> 1000] >>

RECURSIVE Sweep(_, _, _)
\* a sweep that leaves out end_hz: while current_freq < end_hz
SweepShort(cur, end, stp) ==
    IF cur < end
    THEN <<Send(CmdSetFreq("A", cur), "set"), Prim("dwell"), Send(CmdSM, "get_s_meter")>>
             \o Sweep(cur + stp, end, stp)
    ELSE <<>>

\* while current_freq <= end_hz: set_frequency_a, time.sleep, get_s_meter,
\* current_freq += step_hz
Sweep(cur, end, stp) ==
    IF cur <= end
    THEN <<Send(CmdSetFreq("A", cur), "set"), Prim("dwell"), Send(CmdSM, "get_s_meter")>>
             \o Sweep(cur + stp, end, stp)
    ELSE <<>>

\* scan_band: _save_radio_state, the sweep in its try block, and in finally
\* _restore_radio_state, whose two commands are made from what was saved
ScanProgram(b) ==
    <<Send(CmdFA, "get_frequency_a"), Send(CmdMD, "get_mode")>>
        \o Sweep(b.start, b.end, b.step)
        \o <<Prim("iffreq"), Send(<<>>, "restore_frequency"),
             Prim("ifmode"), Send(<<>>, "restore_mode")>>

\* results: a pair for every frequency whose set_frequency_a and get_s_meter
\* both returned, acc holding after the two saved values what each returned
RECURSIVE Pairs(_, _, _)
Pairs(b, a, i) ==
    IF Len(a) >= 2 + 2 * i /\ a[1 + 2 * i].k = "none" /\ a[2 + 2 * i].k = "int"
    THEN <<<<b.start + (i - 1) * b.step, a[2 + 2 * i].v>>>> \o Pairs(b, a, i + 1)
    ELSE <<>>

\* ------------------------------------------------ the digital modes ----
SetupOps == {"setup_ft8", "setup_ft4", "setup_js8call"}

\* setup_ft8, setup_ft4, setup_js8call called with frequency f (0: none given,
\* the 20m frequency of the mode): set_frequency_a and set_mode each under
\* "if not ...: return False", the two _set_menu_item, set_power_level
SetupProgram(o, f) ==
    LET target == IF f # 0 THEN f
                  ELSE IF o = "setup_ft8" THEN 14074000
                  ELSE IF o = "setup_ft4" THEN 14080000
                  ELSE 14078000
    IN  <<Send(CmdSetFreq("A", target), "set"), Prim("ifnot"),
          Send(CmdSetMode(12), "set"), Prim("ifnot"),
          Prim("menu"), Prim("menu"),
          Send(CmdSetPower(IF o = "setup_js8call" THEN 20 ELSE 25), "set")>>

\* the commands the raw command of cat.py hands to _send as the user typed them
RawArgs == << <<"T", "X">>, <<"T", "X", ";">>, <<>>, <<"T", "X", ";", "T", "X">> >>

\* the steps of an operation o called with argument a, in program order
Program(o, a) ==
    CASE o = "connect" -> <<Prim("open"), Send(CmdFA, "get_frequency_a")>>
      [] o = "disconnect" -> <<Prim("close")>>
      [] o = "__exit__" -> <<Send(CmdTX0, "set"), Prim("close")>>
      [] o \in Getters \cup {"get_info", "get_id"} -> <<Send(GetterCmd(o), o)>>
      [] o = "set_frequency_a" -> <<Send(CmdSetFreq("A", a), "set")>>
      [] o = "set_frequency_b" -> <<Send(CmdSetFreq("B", a), "set")>>
      [] o = "set_mode" -> <<Send(CmdSetMode(a), "set")>>
      [] o = "set_power_level" -> <<Send(CmdSetPower(a), "set")>>
      [] o = "ptt_on" -> <<Send(CmdTX1, "set")>>
      [] o = "ptt_off" -> <<Send(CmdTX0, "set")>>
      [] o = "swap_vfo" -> <<Send(CmdSV, "set")>>
      [] o = "vfo_a_to_b" -> <<Send(CmdAB, "set")>>
      [] o = "get_status" -> StatusProgram
      [] o = "connect_radio" ->
            <<Prim("new"), Prim("open"), Send(CmdFA, "get_frequency_a")>>
      [] o = "recall_memory_channel" ->
            <<Prim("guard"), [k |-> "raw", cmd |-> CmdRecall(a), dec |-> ""], Prim("nap")>>
                \o StatusProgram
      [] o = "set_ptt" -> <<Prim("pttguard"), Send(CmdPtt(a), "set")>>
      [] o = "toggle_tx_lockout" -> <<Prim("toggle"), Send(CmdTX0, "set")>>
      [] o = "cli_ptt" ->
            <<Prim("new"), Prim("open"), Send(CmdFA, "get_frequency_a"),
              Prim("clicheck"), Send(CmdPtt(a), "set"), Prim("close")>>
      [] o = "mcp_ptt_on" -> <<Prim("ensure"), Send(CmdTX1, "set")>>
      [] o = "disconnect_radio" ->
            <<Prim("ifradio"), Send(CmdTX0, "set"), Prim("close"), Prim("forget")>>
      [] o = "shutdown_event" -> <<Prim("ifconnected"), Send(CmdTX0, "set"), Prim("close")>>
      [] o = "CWKeyer" -> <<Prim("newkeyer")>>
      [] o = "emergency_stop" -> KeyUpSteps
      [] o = "send_morse_code" -> MorseProgram(MorseArgs[a])
      [] o = "scan_band" -> ScanProgram(ScanArgs[a])
      [] o \in SetupOps -> SetupProgram(o, a)
      [] o = "round_trip" -> <<Prim("text_to_morse"), Prim("morse_to_text")>>
      [] o = "_send" -> <<Send(RawArgs[a], "_send")>>

\* the operations that go to the radio through _send as their first step
RadioOps ==
    Getters \cup {"get_info", "get_id", "set_frequency_a", "set_frequency_b",
                  "set_mode", "set_power_level", "ptt_on", "ptt_off",
                  "swap_vfo", "vfo_a_to_b", "get_status"}

LifecycleOps == {"connect", "disconnect", "__exit__"}

WebOps == {"connect_radio", "recall_memory_channel"}

\* the ways a collaborator keys the transmitter: web /api/ptt, CLI ptt, MCP
PttPaths == {"set_ptt", "cli_ptt", "mcp_ptt_on"}

FreqArgs == {29999, 30000, 470000000, 470000001}

\* the arguments an operation is called with; for connect, the baudrate the
\* session was constructed with
ArgsOf(o) ==
    CASE o \in {"set_frequency_a", "set_frequency_b"} -> FreqArgs
      [] o = "set_mode" -> {2, 12}
      [] o = "connect" -> {38400, 0 - 1}
      [] o = "set_power_level" -> {4, 50, 150}
      [] o = "recall_memory_channel" -> {0, 1}
      [] o \in {"set_ptt", "cli_ptt"} -> 0..3
      [] o = "mcp_ptt_on" -> {1, 3}
      [] o = "send_morse_code" -> 1..Len(MorseArgs)
      [] o = "scan_band" -> 1..Len(ScanArgs)
      [] o \in SetupOps -> {0, 7074000}
      [] o = "round_trip" -> MorseTexts
      [] o = "_send" -> 1..Len(RawArgs)
      [] OTHER -> {0}

\* the exception an operation re-raises once its handlers are through: the
\* last one raised, None if there was none
Pending(a) ==
    IF \E i \in 1..Len(a) : a[i].k = "raise"
    THEN a[CHOOSE i \in 1..Len(a) : a[i].k = "raise" /\ \A j \in (i + 1)..Len(a) : a[j].k # "raise"]
    ELSE RetNone

\* the operations a client calls
OpsOf(c) == RadioOps \cup LifecycleOps \cup WebOps

\* a connect that does not look at what the probe read
ResultProbeIgnored(o, x, a) ==
    CASE o = "connect" -> RetBool(TRUE)
      [] o \in Getters \cup {"get_info", "get_id", "_send"} -> a[1]
      [] o = "get_status" -> [k |-> "status", v |-> a]
      [] o = "recall_memory_channel" -> [k |-> "http", v |-> 200]
      [] o \in {"set_ptt", "toggle_tx_lockout"} -> [k |-> "http", v |-> 200]
      [] o = "cli_ptt" -> [k |-> "exit", v |-> 1]
      [] o = "send_morse_code" -> Pending(a)
      [] o = "scan_band" -> [k |-> "list", v |-> Pairs(ScanArgs[x], a, 1)]
      [] o \in SetupOps -> RetBool(TRUE)
      [] o = "round_trip" -> a[1]
      [] OTHER -> RetNone

\* what an operation called with x returns once its last step is over; a
\* holds what its getters decoded, in program order
Result(o, x, a) ==
    CASE o = "connect" -> RetBool(a[Len(a)].v > 0)
      [] o \in Getters \cup {"get_info", "get_id", "_send"} -> a[1]
      [] o = "get_status" -> [k |-> "status", v |-> a]
      [] o = "recall_memory_channel" -> [k |-> "http", v |-> 200]
      [] o \in {"set_ptt", "toggle_tx_lockout"} -> [k |-> "http", v |-> 200]
      [] o = "cli_ptt" -> [k |-> "exit", v |-> 1]
      [] o = "send_morse_code" -> Pending(a)
      [] o = "scan_band" -> [k |-> "list", v |-> Pairs(ScanArgs[x], a, 1)]
      [] o \in SetupOps -> RetBool(TRUE)
      [] o = "round_trip" -> a[1]
      [] OTHER -> RetNone

\* ------------------------------------------------------------ state ----
VARIABLES
    serial,           \* self.serial: "None", or a handle that is "open" or "closed"
    elapsed,          \* time.time() - self._last_cmd_time, saturated at MinCmdInterval
    port_present,     \* the serial device exists and can be opened and used
    radio_connected,  \* web.py: the global radio_connected
    tx_lockout,       \* web.py: the global tx_lockout
    is_keying,        \* cw.py: CWKeyer._is_keying of the keyer in use
    intr,             \* the operator has interrupted the caller (Ctrl-C), once at most
    radio0,           \* the radio as it was when the last operation was called
    web_radio,        \* web.py: the global radio is an FT991A, not None
    web,              \* web.py: scan_active, scan_task, the asyncio tasks, the audio manager
    radio,            \* the transceiver: its VFOs, mode, PTT, meter, squelch, power
    radioOut,         \* bytes the radio has answered and the line has not delivered
    rxbuf,            \* bytes waiting in the serial input buffer
    noise,            \* spurious bytes delivered so far
    faults,           \* answers lost, cut or delayed so far
    writer,           \* the function that wrote to the serial handle last
    ncalls,           \* top-level calls made so far
    pc,               \* where each caller is: idle, step, sleep, write, read, nap, done
    op,               \* the operation each caller is in
    arg,              \* and its argument
    step,             \* the step of Program(op, arg) the caller is at
    acc,              \* what the getters of the operation have decoded so far
    timer,            \* the time the caller's sleep still lasts
    resp,             \* _send: the response bytes read so far
    tmo,              \* _send: the read loop ended on an empty read
    ret,              \* what the operation returned or raised
    sent,             \* the bytes the operation wrote last
    overlap,          \* another caller was inside _send during this caller's _send
    slept,            \* this _send had to wait for the rate limit
    gap,              \* elapsed at the moment this _send wrote, -1 before
    triedPttOff,      \* the operation has called _send("TX0;")
    closed            \* the operation has closed an open transport

ctl == <<pc, step, acc, ret, radio_connected>>
line == <<radio, radioOut, rxbuf, noise, faults, writer>>
sendGhost == <<overlap, slept, gap, triedPttOff>>
app == <<tx_lockout, is_keying, intr, radio0, web_radio, web>>
vars == <<serial, elapsed, port_present, radio_connected, tx_lockout, is_keying, intr, radio0, web_radio, web, radio, radioOut, rxbuf,
          noise, faults, writer, ncalls, pc, op, arg, step, acc, timer, resp, tmo, ret,
          sent, overlap, slept, gap, triedPttOff, closed>>

\* web.py: scan_active = False, scan_task = None, and no task created yet.
\* task, cancel, req and cur are the scan tasks: where each one is suspended,
\* whether a cancellation waits for it, its request and its current_freq;
\* awaiting is the task a stop_scan waits for, http the status start_scan
\* answered last; cfg is where update_config is suspended, conn counts the
\* connections made, mon, monconn and polled are the monitor_radio tasks.
\* AudioConnectionManager.__init__: clients is active_connections, ep where
\* the endpoint of each client is, audio_process and streaming_task tell
\* whether the attributes are set, capturing that the arecord process runs,
\* stream and scancel are the _stream_audio task, chunk the parity of the
\* chunks it has read, stop the stop_audio_stream calls that disconnect()
\* has scheduled
WebInit ==
    [scan_active |-> FALSE, scan_task |-> 0,
     task |-> [t \in 1..MaxTasks |-> "none"],
     cancel |-> [t \in 1..MaxTasks |-> FALSE],
     req |-> [t \in 1..MaxTasks |-> 1],
     cur |-> [t \in 1..MaxTasks |-> 0],
     awaiting |-> 0, http |-> 0,
     cfg |-> "idle", conn |-> 0,
     mon |-> [t \in 1..MaxTasks |-> "none"],
     monconn |-> [t \in 1..MaxTasks |-> 0],
     polled |-> [t \in 1..MaxTasks |-> 0],
     clients |-> {}, ep |-> [c \in 1..MaxClients |-> "idle"],
     audio_process |-> FALSE, capturing |-> FALSE, streaming_task |-> FALSE,
     stream |-> "none", scancel |-> FALSE, chunk |-> 0,
     stop |-> [i \in 1..MaxTasks |-> "none"]]

\* FT991A.__init__, and the radio as it happens to be
Init ==
    /\ serial = "None"
    /\ elapsed = MinCmdInterval
    /\ port_present = TRUE
    /\ radio_connected = FALSE
    /\ tx_lockout = FALSE
    /\ is_keying = FALSE
    /\ intr = [c \in Callers |-> FALSE]
    /\ radio \in {[fa |-> 14074000, fb |-> 7074000, md |-> "2", tx |-> FALSE,
                   sm |-> 0, sql |-> "1", pc |-> 50],
                  [fa |-> 14074000, fb |-> 7074000, md |-> "2", tx |-> FALSE,
                   sm |-> 120, sql |-> "0", pc |-> 50]}
    /\ radio0 = radio
    /\ web_radio = FALSE
    /\ web = WebInit
    /\ radioOut = <<>>
    /\ rxbuf = <<>>
    /\ noise = 0
    /\ faults = 0
    /\ writer = ""
    /\ ncalls = 0
    /\ pc = [c \in Callers |-> "idle"]
    /\ op = [c \in Callers |-> ""]
    /\ arg = [c \in Callers |-> 0]
    /\ step = [c \in Callers |-> 1]
    /\ acc = [c \in Callers |-> <<>>]
    /\ timer = [c \in Callers |-> 0]
    /\ resp = [c \in Callers |-> <<>>]
    /\ tmo = [c \in Callers |-> FALSE]
    /\ ret = [c \in Callers |-> RetNone]
    /\ sent = [c \in Callers |-> <<>>]
    /\ overlap = [c \in Callers |-> FALSE]
    /\ slept = [c \in Callers |-> FALSE]
    /\ gap = [c \in Callers |-> 0 - 1]
    /\ triedPttOff = [c \in Callers |-> FALSE]
    /\ closed = [c \in Callers |-> FALSE]

\* ------------------------------------------------------- scheduling ----
AtRest(c) == pc[c] \in {"idle", "done"}

InSend(c) == pc[c] \in {"sleep", "write", "read"}

\* _restore_radio_state: set_frequency_a(self._original_frequency), and
\* set_mode(mode) for the mode whose name is self._original_mode
RestoreCmd(dec, a) ==
    IF dec = "restore_frequency" THEN CmdSetFreq("A", a[1].v)
    ELSE CmdSetMode(CHOOSE m \in 1..Len(Modes) : Modes[m].name = a[2].v)

Cur(c) ==
    LET s == Program(op[c], arg[c])[step[c]]
    IN  IF s.dec \in {"restore_frequency", "restore_mode"}
        THEN [s EXCEPT !.cmd = RestoreCmd(s.dec, acc[c])]
        ELSE s

\* The handlers of web.py are tasks of one event loop: between two awaits a
\* handler runs alone.  The methods of FT991A called from threads interleave
\* at every step.
MayRun(c, o) ==
    \A d \in Callers \ {c} :
        (~AtRest(d) /\ pc[d] # "nap") => (op[d] \notin WebOps /\ o \notin WebOps)

\* ------------------------------------------------ control of a call ----
\* the operation is over and returns or raises r
Finish(c, r) ==
    /\ pc' = [pc EXCEPT ![c] = "done"]
    /\ ret' = [ret EXCEPT ![c] = r]
    /\ radio_connected' = IF op[c] = "connect_radio" THEN FALSE ELSE radio_connected
    /\ UNCHANGED <<step, acc>>

\* the current step is over, a holds what the getters decoded so far
Advance(c, a) ==
    IF step[c] = Len(Program(op[c], arg[c]))
    THEN /\ pc' = [pc EXCEPT ![c] = "done"]
         /\ ret' = [ret EXCEPT ![c] = Result(op[c], arg[c], a)]
         /\ radio_connected' =
               IF op[c] = "connect_radio" THEN a[Len(a)].v > 0
               ELSE IF op[c] = "disconnect_radio" THEN FALSE
               ELSE radio_connected
         /\ acc' = [acc EXCEPT ![c] = a]
         /\ UNCHANGED step
    ELSE /\ pc' = [pc EXCEPT ![c] = "step"]
         /\ step' = [step EXCEPT ![c] = step[c] + 1]
         /\ acc' = [acc EXCEPT ![c] = a]
         /\ UNCHANGED <<ret, radio_connected>>

\* the operation goes on at step n of its program
Jump(c, n, a) ==
    IF n > Len(Program(op[c], arg[c]))
    THEN /\ pc' = [pc EXCEPT ![c] = "done"]
         /\ ret' = [ret EXCEPT ![c] = Result(op[c], arg[c], a)]
         /\ acc' = [acc EXCEPT ![c] = a]
         /\ UNCHANGED <<step, radio_connected>>
    ELSE /\ pc' = [pc EXCEPT ![c] = "step"]
         /\ step' = [step EXCEPT ![c] = n]
         /\ acc' = [acc EXCEPT ![c] = a]
         /\ UNCHANGED <<ret, radio_connected>>

\* the current step raises e: the try blocks of the operation decide
Raise(c, e) ==
    CASE op[c] = "__exit__" /\ step[c] = 1 -> Advance(c, acc[c])
      [] op[c] = "disconnect_radio" /\ step[c] = 2 -> Advance(c, acc[c])
      [] op[c] = "shutdown_event" -> Finish(c, RetNone)
      [] op[c] = "connect" /\ e = "SerialException" -> Finish(c, RetBool(FALSE))
      [] op[c] = "connect_radio" -> Finish(c, RetNone)
      [] op[c] = "recall_memory_channel" /\ Cur(c).k = "raw" ->
            Finish(c, [k |-> "http", v |-> 500])
      [] op[c] = "recall_memory_channel" /\ Cur(c).k = "send" ->
            Finish(c, [k |-> "http", v |-> 200])
      [] op[c] = "set_ptt" -> Finish(c, [k |-> "http", v |-> 500])
      [] op[c] = "toggle_tx_lockout" -> Finish(c, [k |-> "http", v |-> 200])
      [] op[c] = "cli_ptt" /\ step[c] <= 3 -> Finish(c, [k |-> "exit", v |-> 1])
      [] op[c] = "cli_ptt" /\ step[c] > 3 -> Advance(c, acc[c])
      [] op[c] = "send_morse_code" /\ step[c] < ExceptAt(MorseArgs[arg[c]])
                                   /\ e # "KeyboardInterrupt" ->
            Jump(c, ExceptAt(MorseArgs[arg[c]]), Append(acc[c], RetRaise(e)))
      [] op[c] = "send_morse_code" /\ step[c] < FinallyAt(MorseArgs[arg[c]])
                                   /\ (step[c] >= ExceptAt(MorseArgs[arg[c]]) \/ e = "KeyboardInterrupt") ->
            Jump(c, FinallyAt(MorseArgs[arg[c]]), Append(acc[c], RetRaise(e)))
      [] op[c] = "send_morse_code" /\ step[c] >= FinallyAt(MorseArgs[arg[c]]) ->
            Jump(c, Len(Program(op[c], arg[c])) + 1, Append(acc[c], RetRaise(e)))
      [] op[c] = "scan_band" /\ step[c] > 2 /\ Cur(c).k \notin {"iffreq", "ifmode"}
                             /\ Cur(c).dec \notin {"restore_frequency", "restore_mode"} ->
            Jump(c, Len(Program(op[c], arg[c])) - 3, Append(acc[c], RetRaise(e)))
      [] op[c] \in SetupOps -> Finish(c, RetBool(FALSE))
      [] OTHER -> Finish(c, RetRaise(e))

\* a caller calls operation o with argument a
Call(c, o, a) ==
    /\ AtRest(c)
    /\ ncalls < MaxCalls
    /\ MayRun(c, o)
    /\ ncalls' = ncalls + 1
    /\ pc' = [pc EXCEPT ![c] = "step"]
    /\ op' = [op EXCEPT ![c] = o]
    /\ arg' = [arg EXCEPT ![c] = a]
    /\ step' = [step EXCEPT ![c] = 1]
    /\ acc' = [acc EXCEPT ![c] = <<>>]
    /\ timer' = [timer EXCEPT ![c] = 0]
    /\ resp' = [resp EXCEPT ![c] = <<>>]
    /\ tmo' = [tmo EXCEPT ![c] = FALSE]
    /\ ret' = [ret EXCEPT ![c] = RetNone]
    /\ sent' = [sent EXCEPT ![c] = <<>>]
    /\ overlap' = [overlap EXCEPT ![c] = FALSE]
    /\ slept' = [slept EXCEPT ![c] = FALSE]
    /\ gap' = [gap EXCEPT ![c] = 0 - 1]
    /\ triedPttOff' = [triedPttOff EXCEPT ![c] = FALSE]
    /\ closed' = [closed EXCEPT ![c] = FALSE]
    /\ radio0' = radio
    /\ UNCHANGED <<serial, elapsed, port_present, radio_connected, tx_lockout, is_keying, intr,
                   web_radio, web, line>>

AtStep(c, kind) ==
    /\ pc[c] = "step"
    /\ MayRun(c, op[c])
    /\ Cur(c).k = kind

\* ------------------------------------------------------- lifecycle ----
\* web.py connect_radio: radio = FT991A(...), a new session; the handle of
\* the session it replaces is closed when that object is collected
New(c) ==
    /\ AtStep(c, "new")
    /\ serial' = "None"
    /\ elapsed' = MinCmdInterval
    /\ rxbuf' = <<>>
    /\ web_radio' = (web_radio \/ op[c] = "connect_radio")
    /\ Advance(c, acc[c])
    /\ UNCHANGED <<port_present, radio, radioOut, noise, faults, writer, ncalls, tx_lockout,
                   is_keying, intr, radio0, web, op, arg, timer, resp, tmo, sent, sendGhost, closed>>

\* serial.Serial(baudrate=self.baudrate, ...) takes the baudrate: the driver
\* refuses a negative one with ValueError before it touches the port
BaudOk(b) == b >= 0

\* connect: serial.Serial(...) opens the port, with an empty input buffer
OpenOk(c) ==
    /\ AtStep(c, "open")
    /\ BaudOk(arg[c])
    /\ port_present
    /\ serial' = "open"
    /\ rxbuf' = <<>>
    /\ Advance(c, acc[c])
    /\ UNCHANGED <<elapsed, port_present, radio, radioOut, noise, faults, writer, ncalls, app,
                   op, arg, timer, resp, tmo, sent, sendGhost, closed>>

\* connect: serial.Serial(...) raises SerialException, self.serial stays
OpenFail(c) ==
    /\ AtStep(c, "open")
    /\ BaudOk(arg[c])
    /\ ~port_present
    /\ Raise(c, "SerialException")
    /\ UNCHANGED <<serial, elapsed, port_present, line, ncalls, app, op, arg, timer,
                   resp, tmo, sent, sendGhost, closed>>

\* connect: serial.Serial(...) raises ValueError, which connect does not catch
OpenReject(c) ==
    /\ AtStep(c, "open")
    /\ ~BaudOk(arg[c])
    /\ Raise(c, "ValueError")
    /\ UNCHANGED <<serial, elapsed, port_present, line, ncalls, app, op, arg, timer,
                   resp, tmo, sent, sendGhost, closed>>

\* disconnect: if self.serial and self.serial.is_open: self.serial.close()
Close(c) ==
    /\ AtStep(c, "close")
    /\ serial' = IF serial = "open" THEN "closed" ELSE serial
    /\ rxbuf' = IF serial = "open" THEN <<>> ELSE rxbuf
    /\ closed' = [closed EXCEPT ![c] = (serial = "open")]
    /\ Advance(c, acc[c])
    /\ UNCHANGED <<elapsed, port_present, radio, radioOut, noise, faults, writer, ncalls, app,
                   op, arg, timer, resp, tmo, sent, sendGhost>>

\* ------------------------------------------------------------ _send ----
\* a session test that forgets is_open: a closed handle passes for connected
ConnectedAnyHandle == serial # "None"

\* if not self.serial or not self.serial.is_open: raise ConnectionError
Connected == serial = "open"

\* a rate limit that never sleeps
RateWaitNone(e) == 0

\* time.sleep(self._min_cmd_interval - elapsed)
RateWait(e) == MinCmdInterval - e

\* the bytes that answer c's command belong to a transaction that is over
Late(bs, c) ==
    [i \in 1..Len(bs) |-> IF bs[i].of = c THEN [ch |-> bs[i].ch, of |-> "late"] ELSE bs[i]]

\* _send up to the write: the connection check, then the rate limit
SendEnter(c) ==
    /\ AtStep(c, "send")
    /\ triedPttOff' = [triedPttOff EXCEPT ![c] = triedPttOff[c] \/ Cur(c).cmd = CmdTX0]
    /\ resp' = [resp EXCEPT ![c] = <<>>]
    /\ tmo' = [tmo EXCEPT ![c] = FALSE]
    /\ IF ~Connected
       THEN /\ Raise(c, "ConnectionError")
            /\ UNCHANGED <<timer, overlap, slept, gap>>
       ELSE /\ overlap' = [d \in Callers |->
                  IF d = c THEN \E x \in Callers \ {c} : InSend(x)
                  ELSE overlap[d] \/ InSend(d)]
            /\ gap' = [gap EXCEPT ![c] = 0 - 1]
            /\ IF elapsed < MinCmdInterval
               THEN /\ pc' = [pc EXCEPT ![c] = "sleep"]
                    /\ timer' = [timer EXCEPT ![c] = RateWait(elapsed)]
                    /\ slept' = [slept EXCEPT ![c] = TRUE]
               ELSE /\ pc' = [pc EXCEPT ![c] = "write"]
                    /\ slept' = [slept EXCEPT ![c] = FALSE]
                    /\ UNCHANGED timer
            /\ UNCHANGED <<step, acc, ret, radio_connected>>
    /\ UNCHANGED <<serial, elapsed, port_present, line, ncalls, app, op, arg, sent, closed>>

\* time.sleep returns
SendWake(c) ==
    /\ pc[c] = "sleep"
    /\ MayRun(c, op[c])
    /\ timer[c] = 0
    /\ pc' = [pc EXCEPT ![c] = "write"]
    /\ UNCHANGED <<serial, elapsed, port_present, radio_connected, line, ncalls, app,
                   op, arg, step, acc, timer, resp, tmo, ret, sent, sendGhost, closed>>

\* self.serial.write(command.encode('ascii')); flush(); self._last_cmd_time = time.time()
\* a _send that stamps _last_cmd_time before it writes
SendWriteStampFirst(c) ==
    /\ pc[c] = "write"
    /\ MayRun(c, op[c])
    /\ IF serial = "open" /\ port_present
       THEN /\ sent' = [sent EXCEPT ![c] = Terminated(Cur(c).cmd)]
            /\ radio' = RadioAfter(Terminated(Cur(c).cmd), radio)
            /\ radioOut' = radioOut \o Tagged(RadioReply(Terminated(Cur(c).cmd), radio), c)
            /\ writer' = "_send"
            /\ gap' = [gap EXCEPT ![c] = elapsed]
            /\ elapsed' = 0
            /\ pc' = [pc EXCEPT ![c] = "read"]
            /\ UNCHANGED <<step, acc, ret, radio_connected>>
       ELSE /\ Raise(c, "SerialException")
            /\ elapsed' = 0
            /\ UNCHANGED <<sent, radio, radioOut, writer, gap>>
    /\ UNCHANGED <<serial, port_present, rxbuf, noise, faults, ncalls, app, op, arg, timer,
                   resp, tmo, overlap, slept, triedPttOff, closed>>

SendWrite(c) ==
    /\ pc[c] = "write"
    /\ MayRun(c, op[c])
    /\ IF serial = "open" /\ port_present
       THEN /\ sent' = [sent EXCEPT ![c] = Terminated(Cur(c).cmd)]
            /\ radio' = RadioAfter(Terminated(Cur(c).cmd), radio)
            /\ radioOut' = radioOut \o Tagged(RadioReply(Terminated(Cur(c).cmd), radio), c)
            /\ writer' = "_send"
            /\ gap' = [gap EXCEPT ![c] = elapsed]
            /\ elapsed' = 0
            /\ pc' = [pc EXCEPT ![c] = "read"]
            /\ UNCHANGED <<step, acc, ret, radio_connected>>
       ELSE /\ Raise(c, "SerialException")
            /\ UNCHANGED <<sent, radio, radioOut, writer, gap, elapsed>>
    /\ UNCHANGED <<serial, port_present, rxbuf, noise, faults, ncalls, app, op, arg, timer,
                   resp, tmo, overlap, slept, triedPttOff, closed>>

\* byte = self.serial.read(1) returns a byte
\* a read loop that does not look for the terminator
ReadByteGreedy(c) ==
    /\ pc[c] = "read"
    /\ MayRun(c, op[c])
    /\ serial = "open"
    /\ port_present
    /\ rxbuf # <<>>
    /\ resp' = [resp EXCEPT ![c] = Append(resp[c], Head(rxbuf))]
    /\ rxbuf' = Tail(rxbuf)
    /\ UNCHANGED <<ctl, radioOut>>
    /\ UNCHANGED <<serial, elapsed, port_present, radio, noise, faults, writer, ncalls, app, op,
                   arg, timer, tmo, sent, sendGhost, closed>>

ReadByte(c) ==
    /\ pc[c] = "read"
    /\ MayRun(c, op[c])
    /\ serial = "open"
    /\ port_present
    /\ rxbuf # <<>>
    /\ resp' = [resp EXCEPT ![c] = Append(resp[c], Head(rxbuf))]
    /\ IF Head(rxbuf).ch = ";"
       THEN /\ Advance(c, Append(acc[c], Decode(Cur(c).dec, Decoded(resp'[c]))))
            /\ rxbuf' = Late(Tail(rxbuf), c)
            /\ radioOut' = Late(radioOut, c)
       ELSE /\ rxbuf' = Tail(rxbuf)
            /\ UNCHANGED <<ctl, radioOut>>
    /\ UNCHANGED <<serial, elapsed, port_present, radio, noise, faults, writer, ncalls, app, op,
                   arg, timer, tmo, sent, sendGhost, closed>>

\* the answer the caller waits for is held back as a whole: none of it has
\* come, and the line still has to deliver it
Stalled(c) ==
    /\ radioOut # <<>>
    /\ \A i \in 1..Len(resp[c]) : resp[c][i].of # c

\* byte = self.serial.read(1) returns nothing after self.timeout: break
ReadTimeout(c) ==
    /\ pc[c] = "read"
    /\ MayRun(c, op[c])
    /\ serial = "open"
    /\ port_present
    /\ rxbuf = <<>>
    /\ Stalled(c) => faults < MaxFaults
    /\ faults' = IF Stalled(c) THEN faults + 1 ELSE faults
    /\ tmo' = [tmo EXCEPT ![c] = TRUE]
    /\ elapsed' = Min2(elapsed + Timeout, MinCmdInterval)
    /\ timer' = [d \in Callers |-> Max2(timer[d] - Timeout, 0)]
    /\ Advance(c, Append(acc[c], Decode(Cur(c).dec, Decoded(resp[c]))))
    /\ radioOut' = Late(radioOut, c)
    /\ UNCHANGED <<serial, port_present, radio, rxbuf, noise, writer, ncalls, app, op,
                   arg, resp, sent, sendGhost, closed>>

\* self.serial.read(1) raises: the port was closed or has gone
ReadError(c) ==
    /\ pc[c] = "read"
    /\ MayRun(c, op[c])
    /\ serial # "open" \/ ~port_present
    /\ Raise(c, "SerialException")
    /\ rxbuf' = Late(rxbuf, c)
    /\ radioOut' = Late(radioOut, c)
    /\ UNCHANGED <<serial, elapsed, port_present, radio, noise, faults, writer, ncalls, app, op,
                   arg, timer, resp, tmo, sent, sendGhost, closed>>

\* ------------------------------------------- web.py recall_memory_channel ----
\* if not radio_connected or not radio: 503; if req.channel < 1 or > 99: 400
Guard(c) ==
    /\ AtStep(c, "guard")
    /\ IF ~radio_connected THEN Finish(c, [k |-> "http", v |-> 503])
       ELSE IF arg[c] < 1 \/ arg[c] > 99 THEN Finish(c, [k |-> "http", v |-> 400])
       ELSE Advance(c, acc[c])
    /\ UNCHANGED <<serial, elapsed, port_present, line, ncalls, app, op, arg, timer,
                   resp, tmo, sent, sendGhost, closed>>

\* radio.serial.write(mc_command.encode())
RawWrite(c) ==
    /\ AtStep(c, "raw")
    /\ IF serial = "open" /\ port_present
       THEN /\ sent' = [sent EXCEPT ![c] = Cur(c).cmd]
            /\ radio' = RadioAfter(Cur(c).cmd, radio)
            /\ radioOut' = radioOut \o Tagged(RadioReply(Cur(c).cmd, radio), "raw")
            /\ writer' = op[c]
            /\ Advance(c, acc[c])
       ELSE /\ Raise(c, IF serial = "None" THEN "AttributeError" ELSE "SerialException")
            /\ UNCHANGED <<sent, radio, radioOut, writer>>
    /\ UNCHANGED <<serial, elapsed, port_present, rxbuf, noise, faults, ncalls, app, op, arg,
                   timer, resp, tmo, sendGhost, closed>>

\* await asyncio.sleep(0.1)
NapStart(c) ==
    /\ AtStep(c, "nap")
    /\ pc' = [pc EXCEPT ![c] = "nap"]
    /\ timer' = [timer EXCEPT ![c] = RecallSleepMs]
    /\ UNCHANGED <<serial, elapsed, port_present, radio_connected, line, ncalls, app, op,
                   arg, step, acc, resp, tmo, ret, sent, sendGhost, closed>>

NapWake(c) ==
    /\ pc[c] = "nap"
    /\ MayRun(c, op[c])
    /\ timer[c] = 0
    /\ Advance(c, acc[c])
    /\ UNCHANGED <<serial, elapsed, port_present, line, ncalls, app, op, arg, timer,
                   resp, tmo, sent, sendGhost, closed>>

\* ------------------------------------------ collaborators and the PTT ----
\* web.py set_ptt: 503 if not connected, 423 if the TX lockout is on
\* a set_ptt that does not look at the lockout
PttGuardNoLockout(c) ==
    /\ AtStep(c, "pttguard")
    /\ IF ~radio_connected \/ ~web_radio THEN Finish(c, [k |-> "http", v |-> 503])
       ELSE Advance(c, acc[c])
    /\ UNCHANGED <<serial, elapsed, port_present, line, ncalls, app, op, arg, timer,
                   resp, tmo, sent, sendGhost, closed>>

PttGuard(c) ==
    /\ AtStep(c, "pttguard")
    /\ IF ~radio_connected \/ ~web_radio THEN Finish(c, [k |-> "http", v |-> 503])
       ELSE IF tx_lockout THEN Finish(c, [k |-> "http", v |-> 423])
       ELSE Advance(c, acc[c])
    /\ UNCHANGED <<serial, elapsed, port_present, line, ncalls, app, op, arg, timer,
                   resp, tmo, sent, sendGhost, closed>>

\* web.py toggle_tx_lockout: tx_lockout = not tx_lockout, and ptt_off() when
\* the lockout went on and the radio is connected
Toggle(c) ==
    /\ AtStep(c, "toggle")
    /\ tx_lockout' = ~tx_lockout
    /\ IF ~tx_lockout /\ radio_connected /\ web_radio THEN Advance(c, acc[c])
       ELSE Finish(c, [k |-> "http", v |-> 200])
    /\ UNCHANGED <<serial, elapsed, port_present, line, ncalls, is_keying, intr, radio0, web_radio, web, op, arg, timer,
                   resp, tmo, sent, sendGhost, closed>>

\* cli.py cli_main: if not radio.connect(): return 1, before the try whose
\* finally disconnects
CliCheck(c) ==
    /\ AtStep(c, "clicheck")
    /\ IF acc[c][Len(acc[c])].v > 0 THEN Advance(c, acc[c])
       ELSE Finish(c, [k |-> "exit", v |-> 1])
    /\ UNCHANGED <<serial, elapsed, port_present, line, ncalls, app, op, arg, timer,
                   resp, tmo, sent, sendGhost, closed>>

\* mcp.py ensure_connected: self.radio is None, for connect_radio's
\* FT991A(port=..., baud=...) raises TypeError before it is assigned; the
\* RuntimeError ends the tool call with an error text
McpEnsure(c) ==
    /\ AtStep(c, "ensure")
    /\ Finish(c, [k |-> "tool", v |-> "error"])
    /\ UNCHANGED <<serial, elapsed, port_present, line, ncalls, app, op, arg, timer,
                   resp, tmo, sent, sendGhost, closed>>

\* ------------------------------------------------------ the CW keyer ----
\* CWKeyer.__init__: self._is_keying = False
NewKeyer(c) ==
    /\ AtStep(c, "newkeyer")
    /\ is_keying' = FALSE
    /\ Advance(c, acc[c])
    /\ UNCHANGED <<serial, elapsed, port_present, line, ncalls, tx_lockout, intr, radio0, web_radio, web, op, arg, timer,
                   resp, tmo, sent, sendGhost, closed>>

\* _key_down: if not self._is_keying
KeyDown(c) ==
    /\ AtStep(c, "keydown")
    /\ IF ~is_keying THEN Advance(c, acc[c]) ELSE Jump(c, step[c] + 3, acc[c])
    /\ UNCHANGED <<serial, elapsed, port_present, line, ncalls, app, op, arg, timer,
                   resp, tmo, sent, sendGhost, closed>>

\* _key_up: if self._is_keying
KeyUp(c) ==
    /\ AtStep(c, "keyup")
    /\ IF is_keying THEN Advance(c, acc[c]) ELSE Jump(c, step[c] + Len(KeyUpSteps), acc[c])
    /\ UNCHANGED <<serial, elapsed, port_present, line, ncalls, app, op, arg, timer,
                   resp, tmo, sent, sendGhost, closed>>

\* self._is_keying = True once ptt_on() has returned, False once ptt_off() has
SetKeying(c) ==
    /\ pc[c] = "step"
    /\ Cur(c).k \in {"keyed", "unkeyed"}
    /\ is_keying' = (Cur(c).k = "keyed")
    /\ Advance(c, acc[c])
    /\ UNCHANGED <<serial, elapsed, port_present, line, ncalls, tx_lockout, intr, radio0, web_radio, web, op, arg, timer,
                   resp, tmo, sent, sendGhost, closed>>

\* _send_dit, _send_dah, _element_gap, _letter_gap, _word_gap, and the dwell
\* of scan_band: time.sleep
Sleep(c) ==
    /\ pc[c] = "step"
    /\ Cur(c).k \in {"dit", "dah", "egap", "lgap", "wgap", "dwell"}
    /\ pc' = [pc EXCEPT ![c] = "nap"]
    /\ timer' = [timer EXCEPT ![c] = SleepMs(Cur(c).k)]
    /\ UNCHANGED <<serial, elapsed, port_present, radio_connected, line, ncalls, app, op,
                   arg, step, acc, resp, tmo, ret, sent, sendGhost, closed>>

\* send_morse_code: the try body is through, the finally block is next
EndTry(c) ==
    /\ AtStep(c, "endtry")
    /\ Jump(c, FinallyAt(MorseArgs[arg[c]]), acc[c])
    /\ UNCHANGED <<serial, elapsed, port_present, line, ncalls, app, op, arg, timer,
                   resp, tmo, sent, sendGhost, closed>>

\* _restore_radio_state: if self._original_frequency, and if
\* self._original_mode with a Mode of that name
RestoreIf(c) ==
    /\ pc[c] = "step"
    /\ Cur(c).k \in {"iffreq", "ifmode"}
    /\ IF \/ Cur(c).k = "iffreq" /\ acc[c][1].v # 0
          \/ /\ Cur(c).k = "ifmode"
             /\ acc[c][2].k = "mode"
             /\ \E m \in 1..Len(Modes) : Modes[m].name = acc[c][2].v
       THEN Advance(c, acc[c])
       ELSE Jump(c, step[c] + 2, acc[c])
    /\ UNCHANGED <<serial, elapsed, port_present, line, ncalls, app, op, arg, timer,
                   resp, tmo, sent, sendGhost, closed>>

\* the operator's Ctrl-C: KeyboardInterrupt is raised wherever the operation is
Interrupt(c) ==
    /\ ~AtRest(c)
    /\ op[c] \in {"send_morse_code", "scan_band"}
    /\ \A d \in Callers : ~intr[d]
    /\ intr' = [intr EXCEPT ![c] = TRUE]
    /\ timer' = [timer EXCEPT ![c] = 0]
    /\ Raise(c, "KeyboardInterrupt")
    /\ rxbuf' = Late(rxbuf, c)
    /\ radioOut' = Late(radioOut, c)
    /\ UNCHANGED <<serial, elapsed, port_present, radio, noise, faults, writer, ncalls,
                   tx_lockout, is_keying, radio0, web_radio, web, op, arg, resp, tmo, sent, sendGhost, closed>>

\* ------------------------------------------------ the digital modes ----
\* setup_*: "if not self.radio.set_frequency_a(...): return False", the same
\* for set_mode: the setters of cat.py return None.  _set_menu_item calls
\* radio._send_command, which FT991A does not have, and swallows the
\* AttributeError: no command goes out.
SetupStep(c) ==
    /\ pc[c] = "step"
    /\ Cur(c).k \in {"ifnot", "menu"}
    /\ IF Cur(c).k = "ifnot" /\ acc[c][Len(acc[c])].k = "none"
       THEN Finish(c, RetBool(FALSE))
       ELSE Advance(c, acc[c])
    /\ UNCHANGED <<serial, elapsed, port_present, line, ncalls, app, op, arg, timer,
                   resp, tmo, sent, sendGhost, closed>>

\* web.py: "if radio:" and "radio = None; radio_connected = False" of
\* disconnect_radio, "if radio_connected and radio:" of shutdown_event
Teardown(c) ==
    /\ pc[c] = "step"
    /\ Cur(c).k \in {"ifradio", "ifconnected", "forget"}
    /\ web_radio' = (web_radio /\ Cur(c).k # "forget")
    /\ IF \/ Cur(c).k = "ifradio" /\ ~web_radio
          \/ Cur(c).k = "ifconnected" /\ ~(radio_connected /\ web_radio)
       THEN Finish(c, RetNone)
       ELSE Advance(c, acc[c])
    /\ UNCHANGED <<serial, elapsed, port_present, line, ncalls, tx_lockout, is_keying, intr,
                   radio0, web, op, arg, timer, resp, tmo, sent, sendGhost, closed>>

\* text_to_morse(text), then morse_to_text of what it returned
MorseStep(c) ==
    /\ pc[c] = "step"
    /\ Cur(c).k \in {"text_to_morse", "morse_to_text"}
    /\ IF Cur(c).k = "text_to_morse"
       THEN Advance(c, <<RetStr(TextToMorse(arg[c]))>>)
       ELSE Advance(c, <<RetStr(MorseToText(acc[c][1].v))>>)
    /\ UNCHANGED <<serial, elapsed, port_present, line, ncalls, app, op, arg, timer,
                   resp, tmo, sent, sendGhost, closed>>

\* ------------------------------------------------------ environment ----
\* The line and the clock are observed by a caller only where it reads, writes,
\* opens, checks the rate limit or sleeps: their events are taken there.  The
\* input buffer is first in, first out, so a byte that arrives while earlier
\* bytes wait is a byte that arrives once they were read.
Reading == rxbuf = <<>> /\ \E c \in Callers : pc[c] = "read"

Waiting == \E c \in Callers : pc[c] \in {"sleep", "nap"} /\ timer[c] > 0

AboutToSend == \E c \in Callers : pc[c] = "step" /\ Cur(c).k = "send"

UsingPort == \E c \in Callers : pc[c] \in {"write", "read"} \/ (pc[c] = "step" /\ Cur(c).k \in {"open", "raw"})

\* the clock advances
Tick ==
    /\ Waiting \/ (elapsed < MinCmdInterval /\ AboutToSend)
    /\ elapsed' = Min2(elapsed + TickMs, MinCmdInterval)
    /\ timer' = [c \in Callers |-> Max2(timer[c] - TickMs, 0)]
    /\ UNCHANGED <<serial, port_present, radio_connected, line, ncalls, app, pc, op, arg,
                   step, acc, resp, tmo, ret, sent, sendGhost, closed>>

\* the line delivers the first k bytes of what the radio has answered
Deliver(k) ==
    /\ Reading
    /\ serial = "open"
    /\ port_present
    /\ k \in 1..Len(radioOut)
    /\ k < Len(radioOut) => faults < MaxFaults
    /\ faults' = IF k < Len(radioOut) THEN faults + 1 ELSE faults
    /\ rxbuf' = rxbuf \o SubSeq(radioOut, 1, k)
    /\ radioOut' = SubSeq(radioOut, k + 1, Len(radioOut))
    /\ UNCHANGED <<serial, elapsed, port_present, radio_connected, radio, noise,
                   writer, ncalls, app, pc, op, arg, step, acc, timer, resp, tmo, ret,
                   sent, sendGhost, closed>>

\* what the radio has answered is lost
Drop ==
    /\ Reading
    /\ radioOut # <<>>
    /\ faults < MaxFaults
    /\ faults' = faults + 1
    /\ radioOut' = <<>>
    /\ UNCHANGED <<serial, elapsed, port_present, radio_connected, radio, rxbuf,
                   noise, writer, ncalls, app, pc, op, arg, step, acc, timer, resp, tmo,
                   ret, sent, sendGhost, closed>>

\* the line loses one byte of what the radio has answered
LoseByte ==
    /\ Reading
    /\ radioOut # <<>>
    /\ faults < MaxFaults
    /\ faults' = faults + 1
    /\ \E i \in 1..Len(radioOut) :
          radioOut' = SubSeq(radioOut, 1, i - 1) \o SubSeq(radioOut, i + 1, Len(radioOut))
    /\ UNCHANGED <<serial, elapsed, port_present, radio_connected, radio, rxbuf,
                   noise, writer, ncalls, app, pc, op, arg, step, acc, timer, resp, tmo,
                   ret, sent, sendGhost, closed>>

\* the line delivers a byte no command asked for, and no terminator
Noise ==
    /\ Reading
    /\ serial = "open"
    /\ port_present
    /\ noise < MaxNoise
    /\ noise' = noise + 1
    /\ rxbuf' = Append(rxbuf, [ch |-> "#", of |-> "noise"])
    /\ UNCHANGED <<serial, elapsed, port_present, radio_connected, radio, radioOut,
                   faults, writer, ncalls, app, pc, op, arg, step, acc, timer, resp, tmo, ret,
                   sent, sendGhost, closed>>

\* the serial device goes away: the handle stays open and fails from then on
Unplug ==
    /\ UsingPort
    /\ port_present
    /\ faults < MaxFaults
    /\ faults' = faults + 1
    /\ port_present' = FALSE
    /\ UNCHANGED <<serial, elapsed, radio_connected, radio, radioOut, rxbuf, noise,
                   writer, ncalls, app, pc, op, arg, step, acc, timer, resp, tmo, ret,
                   sent, sendGhost, closed>>

\* the serial device is back for the next serial.Serial(...)
Replug ==
    /\ \E c \in Callers : AtStep(c, "open")
    /\ ~port_present
    /\ port_present' = TRUE
    /\ UNCHANGED <<serial, elapsed, radio_connected, line, ncalls, app, pc, op, arg,
                   step, acc, timer, resp, tmo, ret, sent, sendGhost, closed>>

Env ==
    \/ Tick
    \/ \E k \in {Len(radioOut) - 1, Len(radioOut)} : Deliver(k)
    \/ Drop
    \/ Noise

\* --------------------------------------------------- specification ----
\* the steps of FT991A._send
SendStep(c) ==
    \/ SendEnter(c)
    \/ SendWake(c)
    \/ SendWrite(c)
    \/ ReadByte(c)
    \/ ReadTimeout(c)
    \/ ReadError(c)

\* the steps of web.py
WebStep(c) ==
    \/ New(c)
    \/ Guard(c)
    \/ RawWrite(c)
    \/ NapStart(c)
    \/ NapWake(c)

\* one client, which calls the operations one after the other
Next ==
    \/ \E o \in OpsOf("c1") : \E a \in ArgsOf(o) : Call("c1", o, a)
    \/ OpenOk("c1")
    \/ OpenFail("c1")
    \/ OpenReject("c1")
    \/ Close("c1")
    \/ SendStep("c1")
    \/ WebStep("c1")
    \/ Env
    \/ Unplug
    \/ Replug

Spec == Init /\ [][Next]_vars

\* two threads that call the methods of one FT991A which connect() has opened
ThreadOps(c) ==
    IF c = "c1" THEN {"is_transmitting", "disconnect"} ELSE {"get_mode", "disconnect"}

InitThreads ==
    /\ serial = "open"
    /\ elapsed = MinCmdInterval
    /\ port_present = TRUE
    /\ radio_connected = FALSE
    /\ tx_lockout = FALSE
    /\ is_keying = FALSE
    /\ intr = [c \in Callers |-> FALSE]
    /\ radio = [fa |-> 14074000, fb |-> 7074000, md |-> "2", tx |-> FALSE,
                sm |-> 0, sql |-> "1", pc |-> 50]
    /\ radio0 = radio
    /\ web_radio = FALSE
    /\ web = WebInit
    /\ radioOut = <<>>
    /\ rxbuf = <<>>
    /\ noise = 0
    /\ faults = 0
    /\ writer = "_send"
    /\ ncalls = 0
    /\ pc = [c \in Callers |-> "idle"]
    /\ op = [c \in Callers |-> ""]
    /\ arg = [c \in Callers |-> 0]
    /\ step = [c \in Callers |-> 1]
    /\ acc = [c \in Callers |-> <<>>]
    /\ timer = [c \in Callers |-> 0]
    /\ resp = [c \in Callers |-> <<>>]
    /\ tmo = [c \in Callers |-> FALSE]
    /\ ret = [c \in Callers |-> RetNone]
    /\ sent = [c \in Callers |-> <<>>]
    /\ overlap = [c \in Callers |-> FALSE]
    /\ slept = [c \in Callers |-> FALSE]
    /\ gap = [c \in Callers |-> 0 - 1]
    /\ triedPttOff = [c \in Callers |-> FALSE]
    /\ closed = [c \in Callers |-> FALSE]

NextThreads ==
    \/ \E c \in Callers : \E o \in ThreadOps(c) : Call(c, o, 0)
    \/ \E c \in Callers : Close(c)
    \/ \E c \in Callers : SendStep(c)
    \/ Env

SpecThreads == InitThreads /\ [][NextThreads]_vars

\* one client that sets and reads the mode of a session connect() has opened
NextMode ==
    \/ \E m \in 1..Len(Modes) : Call("c1", "set_mode", m)
    \/ Call("c1", "get_mode", 0)
    \/ SendStep("c1")
    \/ Env
    \/ Unplug

SpecMode == InitThreads /\ [][NextMode]_vars

\* the operations of the collaborators that reach the PTT
PttOps ==
    {"connect_radio", "toggle_tx_lockout", "disconnect_radio", "shutdown_event"} \cup PttPaths

\* one client that uses the web service, the CLI and the MCP server
NextPtt ==
    \/ \E o \in PttOps : \E a \in ArgsOf(o) : Call("c1", o, a)
    \/ New("c1")
    \/ OpenOk("c1")
    \/ OpenFail("c1")
    \/ Close("c1")
    \/ SendStep("c1")
    \/ PttGuard("c1")
    \/ Toggle("c1")
    \/ CliCheck("c1")
    \/ McpEnsure("c1")
    \/ Teardown("c1")
    \/ Env
    \/ Unplug
    \/ Replug

SpecPtt == Init /\ [][NextPtt]_vars

\* one operator who keys CW on a session connect() has opened
NextCw ==
    \/ Call("c1", "CWKeyer", 0)
    \/ Call("c1", "emergency_stop", 0)
    \/ \E a \in ArgsOf("send_morse_code") : Call("c1", "send_morse_code", a)
    \/ NewKeyer("c1")
    \/ KeyDown("c1")
    \/ KeyUp("c1")
    \/ SetKeying("c1")
    \/ Sleep("c1")
    \/ EndTry("c1")
    \/ NapWake("c1")
    \/ SendStep("c1")
    \/ Interrupt("c1")
    \/ Tick
    \/ Noise
    \/ Unplug

SpecCw == InitThreads /\ [][NextCw]_vars

\* one operator who scans bands on a session connect() has opened
NextScan ==
    \/ \E a \in ArgsOf("scan_band") : Call("c1", "scan_band", a)
    \/ SendStep("c1")
    \/ Sleep("c1")
    \/ NapWake("c1")
    \/ RestoreIf("c1")
    \/ Interrupt("c1")
    \/ Env
    \/ Unplug

SpecScan == InitThreads /\ [][NextScan]_vars

\* one client that sets up the digital modes on a session connect() has opened
NextDigital ==
    \/ \E o \in SetupOps : \E a \in ArgsOf(o) : Call("c1", o, a)
    \/ SendStep("c1")
    \/ SetupStep("c1")
    \/ Tick
    \/ Noise
    \/ Unplug

SpecDigital == InitThreads /\ [][NextDigital]_vars

\* one user of the raw command of cat.py on a session connect() has opened
NextSend ==
    \/ \E a \in ArgsOf("_send") : Call("c1", "_send", a)
    \/ SendStep("c1")
    \/ Env
    \/ Unplug

SpecSend == InitThreads /\ [][NextSend]_vars

\* one client that keys the transmitter and asks for the transmit state on a
\* session connect() has opened, over a line that may lose a byte
NextTx ==
    \/ \E o \in {"ptt_on", "ptt_off", "is_transmitting"} : Call("c1", o, 0)
    \/ SendStep("c1")
    \/ Env
    \/ LoseByte
    \/ Unplug

SpecTx == InitThreads /\ [][NextTx]_vars

\* ------------------------------------------------- web service tasks ----
\* The handlers and tasks of web.py run on one event loop: a step below is
\* what a coroutine does between two of its awaits, and the calls it makes
\* to the radio in between block the loop, so that they are part of the step.

\* web.py update_config, save_setup_config and startup_event: disconnect_radio
\* when radio_connected, then connect_radio, which starts monitor_radio when
\* the session connects; the handler can be suspended at the broadcast of
\* disconnect_radio. The connect succeeds when the serial device is there.
UpdateConfig(ok) ==
    /\ IF web.cfg = "idle" /\ radio_connected
       THEN /\ web' = [web EXCEPT !.cfg = "connect"]
            /\ radio' = IF web_radio /\ serial = "open" THEN RadioAfter(CmdTX0, radio) ELSE radio
            /\ serial' = IF web_radio /\ serial = "open" THEN "closed" ELSE serial
            /\ web_radio' = FALSE
            /\ radio_connected' = IF web_radio THEN FALSE ELSE radio_connected
            /\ UNCHANGED <<elapsed, port_present>>
       ELSE /\ \/ ~ok
               \/ \E t \in 1..MaxTasks : web.mon[t] = "none"
            /\ LET t == CHOOSE t \in 1..MaxTasks :
                            /\ web.mon[t] = "none"
                            /\ \A u \in 1..(t - 1) : web.mon[u] # "none"
               IN web' = IF ok
                         THEN [web EXCEPT !.cfg = "idle", !.conn = @ + 1,
                                          !.mon[t] = "new", !.monconn[t] = web.conn + 1]
                         ELSE [web EXCEPT !.cfg = "idle"]
            /\ web_radio' = TRUE
            /\ radio_connected' = ok
            /\ serial' = IF ok THEN "open" ELSE "None"
            /\ elapsed' = IF ok THEN 0 ELSE MinCmdInterval
            /\ port_present' = ok
            /\ UNCHANGED radio
    /\ UNCHANGED <<tx_lockout, is_keying, intr, radio0, radioOut, rxbuf, noise,
                   faults, writer, ncalls, pc, op, arg, step, acc, timer, resp, tmo, ret,
                   sent, sendGhost, closed>>

\* web.py start_scan with the request ScanArgs[a]: 503, 409, 400, or
\* scan_active = True and scan_task = asyncio.create_task(...)
StartScan(a) ==
    LET rq == ScanArgs[a]
        code == IF ~radio_connected \/ ~web_radio THEN 503
                ELSE IF web.scan_active THEN 409
                ELSE IF \/ rq.start >= rq.end
                        \/ rq.start < FreqMin \/ rq.end > FreqMax
                        \/ rq.step < ScanStepMin \/ rq.step > ScanStepMax THEN 400
                ELSE 200
        t == CHOOSE t \in 1..MaxTasks :
                 /\ web.task[t] = "none"
                 /\ \A u \in 1..(t - 1) : web.task[u] # "none"
    IN /\ code = 200 => \E u \in 1..MaxTasks : web.task[u] = "none"
       /\ web' = IF code = 200
                 THEN [web EXCEPT !.http = code, !.scan_active = TRUE, !.scan_task = t,
                                  !.task[t] = "new", !.req[t] = a, !.cur[t] = rq.start]
                 ELSE [web EXCEPT !.http = code]
       /\ UNCHANGED <<serial, elapsed, port_present, radio_connected, tx_lockout, is_keying,
                      intr, radio0, web_radio, line, ncalls, pc, op, arg, step, acc, timer,
                      resp, tmo, ret, sent, sendGhost, closed>>

\* web.py stop_scan up to "await scan_task": scan_active = False and
\* scan_task.cancel(); awaiting a task that is done does not suspend. One
\* stop_scan is in flight at a time.
StopScan ==
    /\ web.awaiting = 0
    /\ web' = IF ~web.scan_active THEN web
              ELSE IF web.scan_task = 0 THEN [web EXCEPT !.scan_active = FALSE]
              ELSE IF web.task[web.scan_task] = "done"
                   THEN [web EXCEPT !.scan_active = FALSE, !.scan_task = 0]
              ELSE [web EXCEPT !.scan_active = FALSE, !.cancel[web.scan_task] = TRUE,
                               !.awaiting = web.scan_task]
    /\ UNCHANGED <<serial, elapsed, port_present, radio_connected, tx_lockout, is_keying,
                   intr, radio0, web_radio, line, ncalls, pc, op, arg, step, acc, timer,
                   resp, tmo, ret, sent, sendGhost, closed>>

\* web.py stop_scan once the task it awaits is done: scan_task = None
StopScanDone ==
    /\ web.awaiting # 0
    /\ web.task[web.awaiting] = "done"
    /\ web' = [web EXCEPT !.scan_task = 0, !.awaiting = 0]
    /\ UNCHANGED <<serial, elapsed, port_present, radio_connected, tx_lockout, is_keying,
                   intr, radio0, web_radio, line, ncalls, pc, op, arg, step, acc, timer,
                   resp, tmo, ret, sent, sendGhost, closed>>

\* web.py scan_frequency_range: the task t resumed where it is suspended.
\* A cancellation reaches a task that has not started without running its
\* body, and any other at its await, where "finally: scan_active = False"
\* runs; set_frequency_a and get_status raise when there is no open session,
\* which skips the frequency without an await.
ScanTask(t) ==
    LET rq == ScanArgs[web.req[t]]
        usable == web_radio /\ serial = "open" /\ port_present
        End == [web EXCEPT !.task[t] = "done", !.scan_active = FALSE]
        Loop(f) == IF web.scan_active /\ f <= rq.end /\ usable
                   THEN [web EXCEPT !.task[t] = "settle", !.cur[t] = f]
                   ELSE IF web.scan_active
                        THEN [web EXCEPT !.task[t] = "final", !.cur[t] = f]
                        ELSE [End EXCEPT !.cur[t] = f]
        w == CASE web.cancel[t] /\ web.task[t] = "new" -> [web EXCEPT !.task[t] = "done"]
               [] web.cancel[t] /\ web.task[t] # "new" -> End
               [] ~web.cancel[t] /\ web.task[t] = "new" -> Loop(rq.start)
               [] ~web.cancel[t] /\ web.task[t] = "settle" ->
                      IF usable THEN [web EXCEPT !.task[t] = "progress"]
                      ELSE Loop(web.cur[t] + rq.step)
               [] ~web.cancel[t] /\ web.task[t] = "progress" ->
                      [web EXCEPT !.task[t] = "pause", !.cur[t] = @ + rq.step]
               [] ~web.cancel[t] /\ web.task[t] = "pause" -> Loop(web.cur[t])
               [] ~web.cancel[t] /\ web.task[t] = "final" -> End
    IN /\ web.task[t] \notin {"none", "done"}
       /\ web' = w
       /\ radio' = IF w.task[t] = "settle"
                   THEN RadioAfter(CmdSetFreq("A", w.cur[t]), radio) ELSE radio
       /\ elapsed' = IF w.task[t] \in {"settle", "progress"} THEN 0 ELSE elapsed
       /\ UNCHANGED <<serial, port_present, radio_connected, tx_lockout, is_keying, intr,
                      radio0, web_radio, radioOut, rxbuf, noise, faults, writer, ncalls, pc,
                      op, arg, step, acc, timer, resp, tmo, ret, sent, sendGhost, closed>>

\* web.py monitor_radio: the task t resumed where it is suspended; at the
\* "while radio_connected and radio" it ends or polls get_status(), which
\* raises when the session is closed or the serial device has gone (ok is
\* FALSE when it goes at this poll), and then radio_connected = False
MonitorTask(t, ok) ==
    LET polls == web.mon[t] \in {"new", "sleep"} /\ radio_connected /\ web_radio
        answered == polls /\ serial = "open" /\ port_present /\ ok
    IN /\ web.mon[t] \notin {"none", "done"}
       /\ ok \/ (polls /\ port_present)
       /\ web' = CASE web.mon[t] = "bcast" -> [web EXCEPT !.mon[t] = "sleep"]
                   [] web.mon[t] = "lost" -> [web EXCEPT !.mon[t] = "done"]
                   [] OTHER -> IF ~polls THEN [web EXCEPT !.mon[t] = "done"]
                               ELSE IF answered
                                    THEN [web EXCEPT !.mon[t] = "bcast", !.polled[t] = web.conn]
                                    ELSE [web EXCEPT !.mon[t] = "lost"]
       /\ radio_connected' = IF polls /\ ~answered THEN FALSE ELSE radio_connected
       /\ port_present' = IF polls THEN port_present /\ ok ELSE port_present
       /\ elapsed' = IF answered THEN 0 ELSE elapsed
       /\ UNCHANGED <<serial, tx_lockout, is_keying, intr, radio0, web_radio, line, ncalls, pc,
                      op, arg, step, acc, timer, resp, tmo, ret, sent, sendGhost, closed>>

\* the web service: clients that start and stop scans and change the
\* configuration, and the tasks of the event loop
NextWeb ==
    \/ \E ok \in BOOLEAN : UpdateConfig(ok)
    \/ \E a \in 1..Len(ScanArgs) : StartScan(a)
    \/ StopScan
    \/ StopScanDone
    \/ \E t \in 1..MaxTasks : ScanTask(t)
    \/ \E t \in 1..MaxTasks, ok \in BOOLEAN : MonitorTask(t, ok)

SpecWeb == Init /\ [][NextWeb]_vars

\* AudioConnectionManager.connect as audio_websocket_endpoint calls it: the
\* socket is appended, and the first client goes on into start_audio_stream,
\* which returns at once when a process or a streaming task is recorded
AudioConnect(c) ==
    /\ web.ep[c] = "idle"
    /\ c \notin web.clients
    /\ web' = [web EXCEPT !.clients = @ \cup {c},
                          !.ep[c] = IF web.clients = {} /\ ~web.audio_process
                                       /\ ~web.streaming_task
                                    THEN "starting" ELSE "info"]
    /\ UNCHANGED <<serial, elapsed, port_present, radio_connected, tx_lockout, is_keying,
                   intr, radio0, web_radio, line, ncalls, pc, op, arg, step, acc, timer,
                   resp, tmo, ret, sent, sendGhost, closed>>

\* audio_websocket_endpoint of client c resumed where it is suspended: in
\* start_audio_stream (ok: a capture device was found, the process and the
\* streaming task are created; a capture is started only after the streaming
\* task of the previous one has ended), at the send of audio_info (not ok:
\* the send raises and the handler calls disconnect(), which schedules
\* stop_audio_stream when no client is left), or in the receive loop, which
\* an exception ends by break
AudioEndpoint(c, ok) ==
    LET i == CHOOSE i \in 1..MaxTasks :
                 /\ web.stop[i] = "none"
                 /\ \A j \in 1..(i - 1) : web.stop[j] # "none"
    IN /\ web.ep[c] # "idle"
       /\ web.ep[c] = "recv" => ~ok
       /\ (web.ep[c] = "starting" /\ ok) => web.stream \in {"none", "done"}
       /\ (web.ep[c] = "info" /\ ~ok /\ web.clients \subseteq {c})
              => \E j \in 1..MaxTasks : web.stop[j] = "none"
       /\ web' = CASE web.ep[c] = "starting" /\ ok ->
                          [web EXCEPT !.ep[c] = "info", !.audio_process = TRUE,
                                      !.capturing = TRUE, !.streaming_task = TRUE,
                                      !.stream = "new", !.scancel = FALSE]
                   [] web.ep[c] = "starting" /\ ~ok -> [web EXCEPT !.ep[c] = "info"]
                   [] web.ep[c] = "info" /\ ok -> [web EXCEPT !.ep[c] = "recv"]
                   [] web.ep[c] = "info" /\ ~ok ->
                          IF web.clients \subseteq {c}
                          THEN [web EXCEPT !.ep[c] = "idle", !.clients = {},
                                           !.stop[i] = "new"]
                          ELSE [web EXCEPT !.ep[c] = "idle", !.clients = @ \ {c}]
                   [] web.ep[c] = "recv" -> [web EXCEPT !.ep[c] = "idle"]
       /\ UNCHANGED <<serial, elapsed, port_present, radio_connected, tx_lockout, is_keying,
                      intr, radio0, web_radio, line, ncalls, pc, op, arg, step, acc, timer,
                      resp, tmo, ret, sent, sendGhost, closed>>

\* AudioConnectionManager._stream_audio resumed where it is suspended: at
\* the read (eof: the process has ended and the read returns no data), in
\* the sends of broadcast_audio, after which the connections whose send
\* failed, those of the endpoints that have returned, are removed from
\* active_connections, or in the stop_audio_stream of its finally. That call
\* cancels the task that makes it when streaming_task still names it, and
\* the cancellation arrives at the wait after terminate().
StreamTask(eof) ==
    LET Exit == IF web.streaming_task
                THEN [web EXCEPT !.stream = "done", !.scancel = TRUE,
                                 !.streaming_task = FALSE, !.capturing = FALSE]
                ELSE IF web.audio_process
                     THEN [web EXCEPT !.stream = "stop", !.scancel = FALSE,
                                      !.capturing = FALSE]
                     ELSE [web EXCEPT !.stream = "done", !.scancel = FALSE]
        Loop(w) == IF w.audio_process /\ w.capturing
                   THEN [w EXCEPT !.stream = "read"]
                   ELSE [Exit EXCEPT !.clients = w.clients]
    IN /\ web.stream \notin {"none", "done"}
       /\ eof => (web.stream = "read" /\ ~web.scancel)
       /\ web' = CASE web.stream = "new" /\ web.scancel -> [web EXCEPT !.stream = "done"]
                   [] web.stream = "new" /\ ~web.scancel -> Loop(web)
                   [] web.stream = "stop" -> [web EXCEPT !.stream = "done",
                                                         !.audio_process = FALSE]
                   [] web.stream \in {"read", "send"} /\ web.scancel -> Exit
                   [] web.stream = "read" /\ ~web.scancel ->
                          IF eof THEN [Exit EXCEPT !.capturing = FALSE]
                          ELSE IF web.clients = {}
                               THEN Loop([web EXCEPT !.chunk = 1 - @])
                               ELSE [web EXCEPT !.chunk = 1 - @, !.stream = "send"]
                   [] web.stream = "send" /\ ~web.scancel ->
                          Loop([web EXCEPT !.clients =
                                    {c \in @ : web.ep[c] # "idle"}])
       /\ UNCHANGED <<serial, elapsed, port_present, radio_connected, tx_lockout, is_keying,
                      intr, radio0, web_radio, line, ncalls, pc, op, arg, step, acc, timer,
                      resp, tmo, ret, sent, sendGhost, closed>>

\* AudioConnectionManager.stop_audio_stream as disconnect() schedules it:
\* the streaming task is cancelled and forgotten and the process terminated,
\* and after the wait audio_process = None
StopStream(i) ==
    /\ web.stop[i] # "none"
    /\ web' = CASE web.stop[i] = "new" /\ web.audio_process ->
                       [web EXCEPT !.stop[i] = "wait", !.streaming_task = FALSE,
                                   !.capturing = FALSE,
                                   !.scancel = (@ \/ (web.streaming_task /\ web.stream # "done"))]
                [] web.stop[i] = "new" /\ ~web.audio_process ->
                       [web EXCEPT !.stop[i] = "none", !.streaming_task = FALSE,
                                   !.scancel = (@ \/ (web.streaming_task /\ web.stream # "done"))]
                [] web.stop[i] = "wait" ->
                       [web EXCEPT !.stop[i] = "none", !.audio_process = FALSE]
    /\ UNCHANGED <<serial, elapsed, port_present, radio_connected, tx_lockout, is_keying,
                   intr, radio0, web_radio, line, ncalls, pc, op, arg, step, acc, timer,
                   resp, tmo, ret, sent, sendGhost, closed>>

\* the audio WebSocket clients that come and go, and the tasks of the audio
\* manager on the event loop
NextAudio ==
    \/ \E c \in 1..MaxClients : AudioConnect(c)
    \/ \E c \in 1..MaxClients, ok \in BOOLEAN : AudioEndpoint(c, ok)
    \/ \E eof \in BOOLEAN : StreamTask(eof)
    \/ \E i \in 1..MaxTasks : StopStream(i)

\* the event loop resumes every task that can run; when clients come and
\* when they leave is up to them
SpecAudio ==
    /\ Init
    /\ [][NextAudio]_vars
    /\ WF_vars(\E eof \in BOOLEAN : StreamTask(eof))
    /\ WF_vars(\E i \in 1..MaxTasks : StopStream(i))
    /\ WF_vars(\E c \in 1..MaxClients, ok \in BOOLEAN :
                   web.ep[c] # "recv" /\ AudioEndpoint(c, ok))

\* one operator who encodes texts and decodes the Morse code again
NextMorse ==
    \/ \E t \in ArgsOf("round_trip") : Call("c1", "round_trip", t)
    \/ MorseStep("c1")

SpecMorse == InitThreads /\ [][NextMorse]_vars

\* ---------------------------------------------------------- claims ----
\* C1: disconnect() always attempts ptt_off() (writes TX0;) before it closes
\* the serial transport, and it closes the transport whatever becomes of
\* that attempt: a disconnect that closed an open transport has called
\* _send("TX0;") before.
C1_DisconnectDeassertsPtt ==
    \A c \in Callers :
        (pc[c] = "done" /\ op[c] = "disconnect" /\ closed[c]) => triedPttOff[c]

\* C2: a numeric getter whose transaction ended on the read timeout yields
\* an outcome the caller can tell from a genuine zero reading: it never
\* returns the integer 0.
C2_TimeoutDistinctFromZero ==
    \A c \in Callers :
        (pc[c] = "done" /\ op[c] \in NumericGetters /\ tmo[c])
            => ~(ret[c].k = "int" /\ ret[c].v = 0)

\* C3: when the transaction of a getter ended on the read timeout, before a
\* terminator, the bytes received so far are not used to compute what the
\* getter returns: it returns what it returns for no bytes at all.
C3_PartialNeverDecoded ==
    \A c \in Callers :
        (pc[c] = "done" /\ op[c] \in Getters /\ tmo[c])
            => /\ ret[c].k = Decode(op[c], <<>>).k
               /\ ret[c].v = Decode(op[c], <<>>).v

\* C4: set_frequency_a/b(hz) with hz in [30000, 470000000] writes exactly FA
\* or FB, nine decimal digits whose value is hz, and the terminator; with hz
\* outside the range it writes no bytes and fails with ValueError.
C4_SetFrequencyRange ==
    \A c \in Callers :
        op[c] \in {"set_frequency_a", "set_frequency_b"} =>
            IF arg[c] >= FreqMin /\ arg[c] <= FreqMax
            THEN sent[c] # <<>> =>
                    /\ Len(sent[c]) = 12
                    /\ sent[c][1] = "F"
                    /\ sent[c][2] = (IF op[c] = "set_frequency_a" THEN "A" ELSE "B")
                    /\ sent[c][12] = ";"
                    /\ AllDigits(Body(sent[c], 2))
                    /\ DigitsVal(Body(sent[c], 2)) = arg[c]
            ELSE /\ sent[c] = <<>>
                 /\ pc[c] = "done" => (ret[c].k = "raise" /\ ret[c].v = "ValueError")

\* C5: between the moment one transaction stamps _last_cmd_time and the
\* moment the next transaction of the session writes its command, at least
\* the minimum interval of 50 ms passes, whatever the first one came to.
C5_MinimumSpacing ==
    \A c \in Callers :
        (gap[c] >= 0 /\ ~overlap[c]) => gap[c] >= MinCmdInterval

\* a call that came right after an answered one has slept and then written
C5_Witness ==
    \E c \in Callers :
        /\ pc[c] = "read"
        /\ slept[c]
        /\ ~overlap[c]
        /\ gap[c] = MinCmdInterval

\* C6: at most one transaction is in flight: no caller writes its command
\* while another caller is between its write and the end of its read, and no
\* caller reads a byte that answers the command of another caller.
C6_OneInFlight ==
    /\ \A c \in Callers : \A d \in Callers \ {c} : ~(pc[c] = "read" /\ pc[d] = "read")
    /\ \A c \in Callers : \A i \in 1..Len(resp[c]) : resp[c][i].of \notin Callers \ {c}

\* C7: only FT991A._send writes to the serial handle.
C7_OnlySendWrites == writer \in {"", "_send"}

\* C8: the response _send returns for a command holds no byte the radio sent
\* in answer to an earlier command, one whose transaction is over.
C8_LateReplyDrained ==
    \A c \in Callers : \A i \in 1..Len(resp[c]) : resp[c][i].of # "late"

\* the longest answer the radio gives to one command
LongestReply == Len(InfoReply([fa |-> 0, md |-> "0", sql |-> "0"]))

\* C9: a transaction ends after a bounded number of byte reads, whatever the
\* device delivers: it reads no more bytes than the longest answer has.
C9_BoundedReads ==
    \A c \in Callers : Len(resp[c]) <= LongestReply

\* C10: an operation that goes to the radio, invoked while the session is
\* not connected, fails at once with ConnectionError: it does not wait for
\* the rate limit, writes nothing, and leaves the time of the last command
\* and the serial handle as they were.
C10_FailsUpFront ==
    [][\A c \in Callers :
          (/\ pc[c] = "step"
           /\ step[c] = 1
           /\ op[c] \in RadioOps
           /\ serial # "open"
           /\ pc'[c] # "step")
          => /\ pc'[c] = "done"
             /\ ret'[c].k = "raise"
             /\ ret'[c].v = "ConnectionError"
             /\ serial' = serial
             /\ elapsed' = elapsed
             /\ writer' = writer
             /\ sent'[c] = <<>>
             /\ ~slept'[c]
             /\ gap'[c] < 0]_vars

\* after disconnect() an operation has failed so, with the handle still closed
C10_Witness ==
    \E c \in Callers :
        /\ pc[c] = "done"
        /\ op[c] \in RadioOps
        /\ ret[c].k = "raise"
        /\ ret[c].v = "ConnectionError"
        /\ serial = "closed"
        /\ sent[c] = <<>>

\* C11: when the port has opened and the FA; probe got no valid answer,
\* connect() returns False and does not raise; and disconnect(), whenever
\* and however often it is called, does not raise.
C11_FailedProbeIsSafe ==
    \A c \in Callers :
        /\ (/\ pc[c] = "done"
            /\ op[c] = "connect"
            /\ sent[c] # <<>>
            /\ LET t == Decoded(resp[c])
               IN  ~(/\ StartsWith(t, <<"F", "A">>)
                     /\ EndsWith(t, ";")
                     /\ AllDigits(Body(t, 2))))
           => (ret[c].k = "bool" /\ ret[c].v = FALSE)
        /\ (pc[c] = "done" /\ op[c] = "disconnect") => ret[c].k = "none"

\* connect() has returned False after a probe that timed out, the port open
C11_Witness ==
    \E c \in Callers :
        /\ pc[c] = "done"
        /\ op[c] = "connect"
        /\ sent[c] = <<"F", "A", ";">>
        /\ tmo[c]
        /\ serial = "open"
        /\ ret[c].k = "bool"
        /\ ret[c].v = FALSE

\* C12: when opening the serial port fails, with whatever exception,
\* connect() returns False and does not raise, and the session has no open
\* transport handle.
C12_OpenFailureReturnsFalse ==
    \A c \in Callers :
        (pc[c] = "done" /\ op[c] = "connect" /\ sent[c] = <<>>)
            => /\ ret[c].k = "bool"
               /\ ret[c].v = FALSE
               /\ serial # "open"

StrangeCodes == {<<>>, <<"Z">>, <<"0">>, <<"2", "2">>, <<"#", "2">>}

\* what C15 asks of the result r that get_mode gives for the code
UnknownModeResult(r, code) ==
    /\ r.k = "unknown_code"
    /\ r.v = code
    /\ ModeText(r) # NameChars("UNKNOWN")
    /\ \A m \in 1..Len(Modes) : ModeText(r) # NameChars(Modes[m].name)

\* C15: on a terminated MD0 response whose code is in no row of the table
\* (empty and multi-character codes too) get_mode() does not raise: it
\* returns an unknown-mode result that carries the code and is the name of
\* no mode.
C15_UnknownModeCode ==
    /\ \A code \in StrangeCodes :
          UnknownModeResult(DecodeMode(<<"M", "D", "0">> \o code \o <<";">>), code)
    /\ \A c \in Callers :
          LET t == Decoded(resp[c])
          IN  (/\ pc[c] = "done"
               /\ op[c] = "get_mode"
               /\ StartsWith(t, <<"M", "D", "0">>)
               /\ EndsWith(t, ";")
               /\ \A m \in 1..Len(Modes) : Body(t, 3) # <<Modes[m].value>>)
              => UnknownModeResult(ret[c], Body(t, 3))

\* get_mode() has answered a two-character code with an unknown-mode result
C15_Witness ==
    \E c \in Callers :
        /\ pc[c] = "done"
        /\ op[c] = "get_mode"
        /\ ~tmo[c]
        /\ ret[c].k = "unknown_code"
        /\ Len(ret[c].v) = 2

\* the text a getter's answer starts with: its command without terminator
AnswerPrefix(o) == Body(GetterCmd(o), 0)

\* C16: a terminated response to a numeric getter whose body is not a
\* number gives a parse-error outcome, one the caller can tell from a
\* timeout and from a number: the getter does not return an integer.
C16_ParseErrorDistinct ==
    \A c \in Callers :
        LET t == Decoded(resp[c])
        IN  (/\ pc[c] = "done"
             /\ op[c] \in NumericGetters
             /\ ~tmo[c]
             /\ StartsWith(t, AnswerPrefix(op[c]))
             /\ EndsWith(t, ";")
             /\ ~ParseInt(Body(t, Len(AnswerPrefix(op[c])))).ok)
            => ret[c].k # "int"

\* the value a getter falls back to: 0, False, 'UNKNOWN'
Sentinel(o) ==
    IF o \in NumericGetters THEN [k |-> "int", v |-> 0]
    ELSE IF o = "get_mode" THEN [k |-> "mode", v |-> "UNKNOWN"]
    ELSE [k |-> "bool", v |-> FALSE]

\* the answer has the frame the getter expects: prefix, terminator, and for
\* the IF answer its length
WellFramed(o, t) ==
    /\ StartsWith(t, AnswerPrefix(o))
    /\ EndsWith(t, ";")
    /\ o = "get_squelch_status" => Len(t) = SquelchLen

\* C17: on an open connection a getter whose transaction timed out, or whose
\* response is malformed, does not raise and returns its fallback value.
C17_GettersFallBack ==
    \A c \in Callers :
        (/\ pc[c] = "done"
         /\ op[c] \in Getters
         /\ serial = "open"
         /\ port_present
         /\ (tmo[c] \/ ~WellFramed(op[c], Decoded(resp[c]))))
        => /\ ret[c].k = Sentinel(op[c]).k
           /\ ret[c].v = Sentinel(op[c]).v

\* the commands of get_status, and the getters that decode their answers
StatusOrder ==
    << <<"F", "A", ";">>, <<"F", "B", ";">>, <<"M", "D", "0", ";">>, <<"T", "X", ";">>,
       <<"I", "F", ";">>, <<"S", "M", "0", ";">>, <<"P", "C", ";">>, <<"R", "M", "2", ";">> >>

StatusFields ==
    << "get_frequency_a", "get_frequency_b", "get_mode", "is_transmitting",
       "get_squelch_status", "get_s_meter", "get_power_level", "get_swr_meter" >>

Confirmed(a) == a >= 2

\* C20: whichever way a collaborator keys the transmitter (web /api/ptt
\* with enable, CLI ptt on, MCP ptt_on), the caller has confirmed that
\* invocation: without a confirmation no TX1; is written.
C20_PttOnConfirmed ==
    \A c \in Callers :
        (op[c] \in PttPaths /\ sent[c] = <<"T", "X", "1", ";">>) => Confirmed(arg[c])

\* a transmission of send_morse_code was aborted: an exception or the
\* operator's interrupt reached its handlers
Aborted(c) == \E i \in 1..Len(acc[c]) : acc[c][i].k = "raise"

\* after the abort the operation called ptt_off(): something followed the
\* first exception in what its radio commands gave
PttOffAfterAbort(c) ==
    \E i \in 1..Len(acc[c]) : acc[c][i].k = "raise" /\ i < Len(acc[c])

\* C21: when a CW transmission is aborted (an exception or the operator's
\* interrupt inside send_morse_code, or a call of emergency_stop()), a
\* ptt_off() is issued as the next radio command, whatever _is_keying
\* records, also for emergency_stop() on a freshly created keyer.
C21_AbortIssuesPttOff ==
    \A c \in Callers :
        /\ (pc[c] = "done" /\ op[c] = "emergency_stop") => triedPttOff[c]
        /\ (pc[c] = "done" /\ op[c] = "send_morse_code" /\ Aborted(c)) => PttOffAfterAbort(c)

\* C22: after send_morse_code() has returned or raised, the transmitter is
\* unkeyed: the last PTT command that reached the radio is TX0; (or none was
\* sent) and _is_keying is False.
C22_UnkeyedAfterSend ==
    \A c \in Callers :
        (pc[c] = "done" /\ op[c] = "send_morse_code") => (~radio.tx /\ ~is_keying)

\* the frequencies start, start + step, ... not above end: how many
SweepCount(b) == IF b.end < b.start THEN 0 ELSE (b.end - b.start) \div b.step + 1

\* the readings scan_band had taken when the operator interrupted its sweep
GatheredAt(a) ==
    LET i == CHOOSE j \in 1..Len(a) : a[j].k = "raise"
    IN  Cardinality({j \in 2..(i - 1) : a[j].k = "int"})

C24_ScanRestores ==
    \A c \in Callers :
        (op[c] = "scan_band" /\ pc[c] = "done" /\ ret[c].k = "list")
            => (radio.fa = radio0.fa /\ radio.md = radio0.md)

\* C25: setup_ft8, setup_ft4 and setup_js8call on a connected session issue
\* set_frequency_a(target), set_mode(DATA_USB), the two menu items and
\* set_power_level in this order and return True when every radio command
\* succeeds; they return False only when a radio command failed.
C25_SetupSucceeds ==
    \A c \in Callers :
        (op[c] \in SetupOps /\ pc[c] = "done" /\ port_present)
            => /\ ret[c].k = "bool"
               /\ ret[c].v
               /\ StartsWith(sent[c], <<"P", "C">>)

\* C26: no two entries of MORSE_TABLE other than the space share a code, and
\* an upper-case text of words of table characters or known prosigns, one
\* space apart, comes back from morse_to_text(text_to_morse(text)) as it was
C26_MorseRoundTrip ==
    /\ \A i, j \in 1..Len(MorseTable) :
           (i # j /\ MorseTable[i].key # <<" ">> /\ MorseTable[j].key # <<" ">>)
               => MorseTable[i].code # MorseTable[j].code
    /\ \A c \in Callers :
           (pc[c] = "done" /\ op[c] = "round_trip") => ret[c] = RetStr(arg[c])

\* the teardown paths: FT991A.__exit__, web disconnect_radio and
\* shutdown_event, and the exit of the CLI
TeardownOps == {"__exit__", "disconnect_radio", "shutdown_event", "cli_ptt"}

\* C27: every teardown path attempts ptt_off() before it closes the serial
\* port, and closes the port even when that ptt_off() raises: a teardown that
\* closed an open port has called ptt_off() before, and no teardown that
\* called ptt_off() leaves the port open.
C27_TeardownDeassertsPtt ==
    \A c \in Callers :
        (pc[c] = "done" /\ op[c] \in TeardownOps)
            => /\ closed[c] => triedPttOff[c]
               /\ (triedPttOff[c] /\ op[c] # "cli_ptt") => serial # "open"

\* C28: while tx_lockout is enabled the web /api/ptt endpoint never causes
\* TX1; to be written (a request handler runs from its lockout test to its
\* ptt_on() without another handler in between, so the lockout that holds
\* while the request is in the radio is the one it tested), and each toggle
\* that enables the lockout while the radio is connected calls ptt_off().
C28_LockoutBlocksPtt ==
    \A c \in Callers :
        /\ (op[c] = "set_ptt" /\ sent[c] = <<"T", "X", "1", ";">>) => ~tx_lockout
        /\ (pc[c] = "done" /\ op[c] = "toggle_tx_lockout" /\ tx_lockout /\ radio_connected)
               => triedPttOff[c]

\* a request to key the transmitter was refused with 423 under the lockout
C28_Witness ==
    \E c \in Callers :
        /\ pc[c] = "done" /\ op[c] = "set_ptt" /\ Enable(arg[c])
        /\ tx_lockout /\ radio_connected
        /\ ret[c] = [k |-> "http", v |-> 423]

\* C29: within a transaction the rate-limit wait precedes the write and the
\* write precedes every read of the response, and _last_cmd_time is set only
\* by _send, right after the command was written and flushed: a caller gets
\* to the write from the end of its wait or with the interval already over,
\* gets to the read loop only from the write, and reads bytes only there;
\* the time since the last command starts again from zero only in the step
\* that wrote a command, so a call rejected as not connected, or whose write
\* raises, leaves the stamp as it was.
C29_SendOrder ==
    [][\A c \in Callers :
          /\ (pc'[c] = "write" /\ pc[c] # "write")
                => \/ pc[c] = "sleep" /\ timer[c] = 0
                   \/ pc[c] = "step" /\ elapsed >= MinCmdInterval
          /\ (pc'[c] = "read" /\ pc[c] # "read")
                => /\ pc[c] = "write"
                   /\ sent'[c] = Terminated(Cur(c).cmd)
                   /\ resp'[c] = <<>>
          /\ (resp'[c] # resp[c] /\ resp'[c] # <<>>) => pc[c] = "read"
          /\ elapsed' < elapsed
                => \E d \in Callers :
                      /\ pc[d] = "write" /\ pc'[d] = "read"
                      /\ sent'[d] = Terminated(Cur(d).cmd)
                      /\ elapsed' = 0]_vars

\* a getter was rejected as not connected, or its write raised, while the
\* interval since the last command that was written still runs
C29_Witness ==
    \E c \in Callers :
        /\ pc[c] = "done" /\ op[c] \in Getters
        /\ ret[c].k = "raise" /\ sent[c] = <<>>
        /\ elapsed < MinCmdInterval

C32_TransmitState ==
    \A c \in Callers :
        (pc[c] = "done" /\ op[c] = "is_transmitting" /\ ret[c].k = "bool")
            => (ret[c].v <=> /\ ~tmo[c]
                             /\ Len(resp[c]) = 4
                             /\ StartsWith(Decoded(resp[c]), <<"T", "X">>)
                             /\ resp[c][3].ch \in {"1", "2"}
                             /\ resp[c][4].ch = ";")

\* C33: an error raised by the transport (write, flush or read) or by the
\* transaction engine during a session operation other than disconnect()
\* reaches the caller unchanged, connect() included: the step in which the
\* write or the read raises SerialException, or _send raises
\* ConnectionError, ends the operation with that exception.
C33_ErrorsPropagate ==
    [][\A c \in Callers :
          (op[c] \in RadioOps \cup {"connect"} /\ pc'[c] # pc[c])
              => /\ (pc[c] \in {"write", "read"} /\ (serial # "open" \/ ~port_present))
                       => (pc'[c] = "done" /\ ret'[c] = RetRaise("SerialException"))
                 /\ (pc[c] = "step" /\ Cur(c).k = "send" /\ ~Connected)
                       => (pc'[c] = "done" /\ ret'[c] = RetRaise("ConnectionError"))]_vars

\* C34: if connect() returns False the serial port is not left open, so
\* that no later operation of the session can write to the wire until a
\* connect() has opened it again.
C34_FailedConnectClosed ==
    \A c \in Callers :
        (pc[c] = "done" /\ op[c] = "connect" /\ ret[c] = RetBool(FALSE))
            => serial # "open"

\* C35: in the CW keyer ptt_on() and ptt_off() strictly alternate, starting
\* with ptt_on; _is_keying is True exactly when the last of them was ptt_on;
\* and send_morse_code issues one ptt_on/ptt_off pair per '.' or '-' of its
\* input and skips any other element.  The radio's transmit state is the
\* last of the two commands: TX1; is written only to an unkeyed radio and
\* TX0; only to a keyed one, the keyer's flag agrees with it whenever an
\* operation of the keyer returns, and a transmission that went through has
\* completed two commands per element.
C35_KeyingAlternates ==
    [][\A c \in Callers :
          op[c] \in {"CWKeyer", "emergency_stop", "send_morse_code"}
              => /\ (pc[c] = "write" /\ pc'[c] = "read")
                       => /\ sent'[c] = <<"T", "X", "1", ";">> => ~radio.tx
                          /\ sent'[c] = <<"T", "X", "0", ";">> => radio.tx
                 /\ (pc[c] # "done" /\ pc'[c] = "done") => (is_keying' <=> radio'.tx)
                 /\ (pc[c] # "done" /\ pc'[c] = "done" /\ op[c] = "send_morse_code"
                       /\ ret'[c].k # "raise")
                       => Len(acc'[c]) = 2 * Cardinality({i \in 1..Len(MorseArgs[arg[c]]) :
                                                            MorseArgs[arg[c]][i] \in {".", "-"}})]_vars

\* the length in dit units that the timing standard gives a key-down or a
\* gap of the keyer
Units(kind) ==
    CASE kind = "dit" -> 1
      [] kind = "dah" -> 3
      [] kind = "egap" -> 1
      [] kind = "lgap" -> 3
      [] kind = "wgap" -> 7

\* C36: measured in dit units, send_morse_code keys down for 1 unit per '.'
\* and 3 units per '-', and the key-up gap it inserts is 1 unit between the
\* elements of a letter, 3 units between the letters of a word and 7 units
\* between words: each pause of the keyer lasts that many dit lengths.
C36_KeyerTiming ==
    [][\A c \in Callers :
          (op[c] = "send_morse_code" /\ pc[c] = "step" /\ pc'[c] = "nap")
              => timer'[c] = Units(Cur(c).k) * (DitUnit \div Wpm)]_vars

\* the scan tasks that run and that no stop_scan has cancelled
ScanRunning == {t \in 1..MaxTasks : web.task[t] \notin {"none", "done"} /\ ~web.cancel[t]}

\* C37: in the web service at most one scan task runs at any time, and
\* scan_active is True exactly while a scan task runs: a scan that was
\* started and not stopped finds scan_active True until it ends, whatever
\* the cleanup of an earlier task does, and once the scan has ended
\* scan_active is False.
C37_OneScanTask ==
    /\ Cardinality(ScanRunning) <= 1
    /\ web.scan_active <=> ScanRunning # {}

\* C38: in the web service at most one monitor_radio task is active at any
\* time, also when disconnect_radio is followed by connect_radio: a monitor
\* task polls only the radio of the connection it was started for.
C38_OneMonitorTask ==
    /\ Cardinality({t \in 1..MaxTasks : web.mon[t] \notin {"none", "done"}}) <= 1
    /\ \A t \in 1..MaxTasks : web.polled[t] \in {0, web.monconn[t]}

\* C39: the audio capture process runs only while an audio WebSocket
\* client is connected: whenever no client is connected (the last one left
\* through disconnect(), through the end of the receive loop of its
\* endpoint, or was dropped as a dead connection by broadcast_audio), the
\* capture process is eventually stopped, unless a client connects again.
C39_CaptureStops ==
    [](((\A c \in 1..MaxClients : web.ep[c] = "idle") /\ web.capturing)
           => <>(~web.capturing \/ \E c \in 1..MaxClients : web.ep[c] # "idle"))

====
